---- MODULE Spec2Model ----
(***************************************************************************)
(* Model of cage, a filesystem sandbox launcher: the rule resolver and the *)
(* validation of presets (RuleResolver, rules.go part of                   *)
(* src/sandbox_linux.go), the macOS profile synthesis                      *)
(* (src/sandbox_darwin.go), the macOS dry-run summary                      *)
(* (src/dryrun_darwin.go), the Linux Landlock backend (runInSandbox of     *)
(* src/sandbox_linux.go, RunInSandbox of src/sandbox.go) and the list of   *)
(* presets built by main (main.go, src/unnamed/part_003).                  *)
(*                                                                         *)
(* A Go string is modelled as a sequence of one-character strings, so that *)
(* cleaning, prefix tests, escaping and byte-wise comparison are computed  *)
(* as the code computes them.                                              *)
(***************************************************************************)
EXTENDS Integers, Sequences, FiniteSets, TLC

(***************************************************************************)
(* Bounds of the model.                                                    *)
(***************************************************************************)
\* total number of rules held by the resolver
MaxRules == 2

(***************************************************************************)
(* Go strings.                                                             *)
(***************************************************************************)
\* byte value of a character (Go compares strings byte-wise)
Byte(c) ==
  CASE c = "\"" -> 34
    [] c = "$"  -> 36
    [] c = "("  -> 40
    [] c = ")"  -> 41
    [] c = "*"  -> 42
    [] c = "+"  -> 43
    [] c = "."  -> 46
    [] c = "/"  -> 47
    [] c = "?"  -> 63
    [] c = "U"  -> 85
    [] c = "["  -> 91
    [] c = "\\" -> 92
    [] c = "]"  -> 93
    [] c = "^"  -> 94
    [] c = "a"  -> 97
    [] c = "b"  -> 98
    [] c = "c"  -> 99
    [] c = "e"  -> 101
    [] c = "h"  -> 104
    [] c = "r"  -> 114
    [] c = "s"  -> 115
    [] c = "t"  -> 116
    [] c = "{"  -> 123
    [] c = "|"  -> 124
    [] c = "}"  -> 125
    [] OTHER    -> 255

\* strings.HasPrefix
HasPrefix(s, p) == Len(p) <= Len(s) /\ SubSeq(s, 1, Len(p)) = p

\* strings.Contains(s, c) for a one-character c
ContainsChar(s, c) == \E i \in 1..Len(s) : s[i] = c

\* s < t on Go strings: byte-wise lexicographic order
RECURSIVE StrLess(_, _)
StrLess(s, t) ==
  IF t = <<>> THEN FALSE
  ELSE IF s = <<>> THEN TRUE
  ELSE IF Byte(Head(s)) # Byte(Head(t)) THEN Byte(Head(s)) < Byte(Head(t))
  ELSE StrLess(Tail(s), Tail(t))

(***************************************************************************)
(* Path canonicalisation: cleanPath = filepath.Clean(filepath.Abs(path)).  *)
(***************************************************************************)
\* working directory of the process, used by filepath.Abs on relative paths
Cwd == <<"/", "a">>

\* the non-empty elements of a path between separators
RECURSIVE SplitElems(_, _, _)
SplitElems(s, i, cur) ==
  IF i > Len(s) THEN (IF cur = <<>> THEN <<>> ELSE <<cur>>)
  ELSE IF s[i] = "/"
       THEN (IF cur = <<>> THEN <<>> ELSE <<cur>>) \o SplitElems(s, i + 1, <<>>)
       ELSE SplitElems(s, i + 1, Append(cur, s[i]))

\* filepath.Clean's treatment of "." and ".." elements, left to right
RECURSIVE CleanElems(_, _, _)
CleanElems(elems, rooted, out) ==
  IF elems = <<>> THEN out
  ELSE LET e == Head(elems) IN
       IF e = <<".">> THEN CleanElems(Tail(elems), rooted, out)
       ELSE IF e = <<".", ".">>
            THEN IF out # <<>> /\ out[Len(out)] # <<".", ".">>
                 THEN CleanElems(Tail(elems), rooted, SubSeq(out, 1, Len(out) - 1))
                 ELSE IF rooted
                      THEN CleanElems(Tail(elems), rooted, out)
                      ELSE CleanElems(Tail(elems), rooted, Append(out, e))
            ELSE CleanElems(Tail(elems), rooted, Append(out, e))

RECURSIVE JoinElems(_)
JoinElems(elems) ==
  IF elems = <<>> THEN <<>>
  ELSE IF Len(elems) = 1 THEN Head(elems)
  ELSE Head(elems) \o <<"/">> \o JoinElems(Tail(elems))

\* filepath.Clean on a Unix path
filepathClean(path) ==
  IF path = <<>> THEN <<".">>
  ELSE LET rooted == path[1] = "/"
           out    == CleanElems(SplitElems(path, 1, <<>>), rooted, <<>>)
       IN IF rooted THEN <<"/">> \o JoinElems(out)
          ELSE IF out = <<>> THEN <<".">> ELSE JoinElems(out)

\* filepath.Abs: an absolute path is cleaned, a relative one is joined to
\* the working directory and cleaned
filepathAbs(path) ==
  IF path # <<>> /\ path[1] = "/" THEN filepathClean(path)
  ELSE filepathClean(Cwd \o <<"/">> \o path)

cleanPath(path) == filepathClean(filepathAbs(path))

\* pathContains without the test of the separator after the parent
pathContainsPrefix(p, c) ==
  HasPrefix(cleanPath(c), cleanPath(p)) /\ Len(cleanPath(c)) > Len(cleanPath(p))

\* pathContains: child lies strictly inside parent
pathContains(parent, child) ==
  LET p == cleanPath(parent)
      c == cleanPath(child)
  IN IF Len(c) <= Len(p) THEN FALSE
     ELSE IF ~HasPrefix(c, p) THEN FALSE
     ELSE IF Len(c) > Len(p) /\ c[Len(p) + 1] # "/" THEN FALSE
     ELSE TRUE

\* isMoreSpecific: the longer path is the more specific one
isMoreSpecific(path1, path2) == Len(path1) > Len(path2)

(***************************************************************************)
(* Rule model.                                                             *)
(***************************************************************************)
AccessRead == 1
AccessWrite == 2
AccessReadWrite == 3

ActionAllow == 0
ActionDeny == 1

\* mode & bit, for a single-bit mask
ModeAnd(mode, bit) == ((mode \div bit) % 2) * bit

\* RuleSource values: the command line and two presets
CLISource == [PresetName |-> "", IsCLI |-> TRUE]
PresetSource(name) == [PresetName |-> name, IsCLI |-> FALSE]
Sources == {CLISource, PresetSource("p1"), PresetSource("p2")}

\* ResolvedRule
Rule(path, mode, action, source, isGlob, except) ==
  [Path |-> path, Mode |-> mode, Action |-> action, Source |-> source,
   IsGlob |-> isGlob, Except |-> except]

\* a ruleKey that leaves the path out
KeyByModeOnly(path, mode) == [path |-> <<>>, mode |-> mode]

\* ruleKey
Key(path, mode) == [path |-> path, mode |-> mode]

(***************************************************************************)
(* Inputs of the operations.                                               *)
(***************************************************************************)
\* paths as written by a caller: "/a", "/a/b", "./b" (relative to the
\* working directory) and the glob "/a/*"
RawPaths ==
  { <<"/", "a">>,
    <<"/", "a", "/", "b">>,
    <<".", "/", "b">>,
    <<"/", "a", "/", "*">> }

\* except lists handed to AddDenyRule: none, and "/a//b/"
ExceptLists == { <<>>, << <<"/", "a", "/", "/", "b", "/">> >> }

\* rules handed to addRule directly (as the package's tests do): any mode
\* and action on the literal path "/a"
DirectRules ==
  { Rule(p, m, a, s, ContainsChar(p, "*"), <<>>) :
      p \in { <<"/", "a">> },
      m \in {AccessRead, AccessWrite, AccessReadWrite},
      a \in {ActionAllow, ActionDeny},
      s \in Sources }

(***************************************************************************)
(* State.                                                                  *)
(***************************************************************************)
VARIABLES
  rules,       \* RuleResolver.rules: map ruleKey -> sequence of rules
  writeRules,  \* first result of the last Resolve call
  readRules,   \* second result of the last Resolve call
  conflicts,   \* third result of the last Resolve call
  calls,       \* Resolve calls since the last rule was added (0, 1, 2 = more)
  prev,        \* results of the Resolve call before the last one
  config,      \* the SandboxConfig handed to the backend
  profile,     \* text returned by generateSandboxProfile, a sequence of lines
  stdout,      \* lines printed by showDryRun
  err,         \* error returned by the backend or the dry run, "" for none
  pc,          \* "resolver", "exec" (process replaced), "dryrun" (printed),
               \* "failed" (the backend returned an error)
  goos,           \* the platform the launcher was built for
  linuxConfig,    \* the SandboxConfig handed to the Linux backend
  landlockRules,  \* the rules built by the Linux runInSandbox
  stderr,         \* diagnostics the Linux backend wrote to standard error
  restrict,       \* RestrictPaths: "none" (not called), "ok", "error"
  linuxErr,       \* error returned by the Linux runInSandbox, "" for none
  linuxPc,        \* position of the Linux launcher: "main", "restrict",
                  \* "lookpath", "execcall", "exec" (process replaced),
                  \* "failed" (runInSandbox returned an error)
  parent,         \* first argument of the last pathContains call
  child,          \* second argument of the last pathContains call
  contained,      \* "" before any call, else the result "true" or "false"
  validated,      \* <<presetName>> of the last ValidatePreset call, <<>> when
                  \* none was made since the last rule was added
  errors,         \* the errors returned by that call
  flags,          \* main: the parsed flags; main rewrites flags.presets
  userConfig,     \* main: the loaded configuration file
  invocation,     \* main: the command line as given
  processed,      \* main: presets merged so far by the processing loop
  mainErr,        \* main: the error printed before os.Exit(1), "" for none
  mainPc          \* main: "args" (flags parsed, configuration loaded),
                  \* "skipcheck", "process", "configured" (SandboxConfig
                  \* built), "run" (handed to the backend), "exit1"

\* state of the Linux launcher
linuxVars == <<linuxConfig, landlockRules, stderr, restrict, linuxErr, linuxPc>>

\* arguments and result of the last pathContains call
callVars == <<parent, child, contained>>

\* argument and result of the last ValidatePreset call
validateVars == <<validated, errors>>

\* state of main
mainVars == <<flags, userConfig, invocation, processed, mainErr, mainPc>>

vars == <<rules, writeRules, readRules, conflicts, calls, prev, config,
          profile, stdout, err, pc, goos, linuxVars, callVars, validateVars, mainVars>>

NoResult == [writeRules |-> <<>>, readRules |-> <<>>, conflicts |-> <<>>]
NoConfig == [AllowAll |-> FALSE, AllowKeychain |-> FALSE, Strict |-> FALSE,
             WriteRules |-> <<>>, ReadRules |-> <<>>, Conflicts |-> <<>>]

RECURSIVE SumLens(_, _)
SumLens(f, keys) ==
  IF keys = {} THEN 0
  ELSE LET k == CHOOSE x \in keys : TRUE
       IN Len(f[k]) + SumLens(f, keys \ {k})

\* number of rules held by the resolver
NumRules == SumLens(rules, DOMAIN rules)

(***************************************************************************)
(* Adding rules.                                                           *)
(***************************************************************************)
\* r.rules[key] = append(r.rules[key], rule)
appendRule(rs, rule) ==
  LET key == Key(rule.Path, rule.Mode)
  IN IF key \in DOMAIN rs
     THEN [rs EXCEPT ![key] = Append(@, rule)]
     ELSE [k \in DOMAIN rs \cup {key} |-> IF k = key THEN <<rule>> ELSE rs[k]]

addRule(rule) ==
  /\ pc = "resolver"
  /\ NumRules < MaxRules
  /\ rules' = appendRule(rules, rule)
  /\ writeRules' = <<>>
  /\ readRules' = <<>>
  /\ conflicts' = <<>>
  /\ calls' = 0
  /\ prev' = NoResult
  /\ validated' = <<>>
  /\ errors' = <<>>
  /\ UNCHANGED <<config, profile, stdout, err, pc, goos, linuxVars, callVars, mainVars>>

\* AddAllowRule: an allow of write access
AddAllowRule(path, source) ==
  LET normalizedPath == cleanPath(path) IN
  /\ pc = "resolver"
  /\ addRule(Rule(normalizedPath, AccessWrite, ActionAllow, source,
                  ContainsChar(path, "*"), <<>>))

\* AddDenyRule: a deny of read and write access, with cleaned exceptions
AddDenyRule(path, except, source) ==
  LET normalizedPath == cleanPath(path)
      cleanExcept == [i \in 1..Len(except) |-> cleanPath(except[i])]
  IN
  /\ pc = "resolver"
  /\ addRule(Rule(normalizedPath, AccessReadWrite, ActionDeny, source,
                  ContainsChar(path, "*"), cleanExcept))

\* AddReadRule: an allow of read access
AddReadRule(path, source) ==
  LET normalizedPath == cleanPath(path) IN
  /\ pc = "resolver"
  /\ addRule(Rule(normalizedPath, AccessRead, ActionAllow, source,
                  ContainsChar(path, "*"), <<>>))

(***************************************************************************)
(* Conflict resolution.                                                    *)
(***************************************************************************)
\* isCarveOut: a deny with an allow strictly inside it
isCarveOut(rule1, rule2) ==
  IF rule1.Action = ActionDeny /\ rule2.Action = ActionAllow
  THEN pathContains(rule1.Path, rule2.Path)
  ELSE IF rule2.Action = ActionDeny /\ rule1.Action = ActionAllow
       THEN pathContains(rule2.Path, rule1.Path)
       ELSE FALSE

\* precedes without the comparison of the sources
precedesIgnoringSource(rule1, rule2) ==
  IF rule1.Action # rule2.Action THEN rule1.Action = ActionAllow
  ELSE isMoreSpecific(rule1.Path, rule2.Path)

\* precedes with the deny before the allow
precedesDenyFirst(rule1, rule2) ==
  IF rule1.Source.IsCLI # rule2.Source.IsCLI THEN rule1.Source.IsCLI
  ELSE IF rule1.Action # rule2.Action THEN rule1.Action = ActionDeny
  ELSE isMoreSpecific(rule1.Path, rule2.Path)

\* the less function of resolveConflict: CLI > preset, allow > deny,
\* longer path > shorter path
precedes(rule1, rule2) ==
  IF rule1.Source.IsCLI # rule2.Source.IsCLI THEN rule1.Source.IsCLI
  ELSE IF rule1.Action # rule2.Action THEN rule1.Action = ActionAllow
  ELSE isMoreSpecific(rule1.Path, rule2.Path)

\* sort.Slice on a slice of at most 12 elements is an insertion sort:
\* each element moves left while it is less than its left neighbour
RECURSIVE insertByPrecedence(_, _)
insertByPrecedence(s, x) ==
  IF s = <<>> THEN <<x>>
  ELSE IF precedes(x, s[Len(s)])
       THEN Append(insertByPrecedence(SubSeq(s, 1, Len(s) - 1), x), s[Len(s)])
       ELSE Append(s, x)

RECURSIVE sortByPrecedence(_)
sortByPrecedence(s) ==
  IF s = <<>> THEN <<>>
  ELSE insertByPrecedence(sortByPrecedence(SubSeq(s, 1, Len(s) - 1)), s[Len(s)])

\* resolveConflict: the first rule after sorting by precedence
resolveConflict(rs) == sortByPrecedence(rs)[1]

\* the less function of sortRulesBySpecificity
pathBefore(rule1, rule2) == StrLess(rule1.Path, rule2.Path)

RECURSIVE insertByPath(_, _)
insertByPath(s, x) ==
  IF s = <<>> THEN <<x>>
  ELSE IF pathBefore(x, s[Len(s)])
       THEN Append(insertByPath(SubSeq(s, 1, Len(s) - 1), x), s[Len(s)])
       ELSE Append(s, x)

RECURSIVE sortRulesBySpecificity(_)
sortRulesBySpecificity(s) ==
  IF s = <<>> THEN <<>>
  ELSE insertByPath(sortRulesBySpecificity(SubSeq(s, 1, Len(s) - 1)), s[Len(s)])

(***************************************************************************)
(* Resolve.                                                                *)
(***************************************************************************)
\* the orders in which a range over a Go map can visit its keys
KeyOrders(keys) ==
  { f \in [1..Cardinality(keys) -> keys] :
      \A i, j \in 1..Cardinality(keys) : i # j => f[i] # f[j] }

\* the conflict is within one preset: every rule names the first rule's preset
isSamePreset(rs) ==
  \A i \in 2..Len(rs) : rs[i].Source.PresetName = rs[1].Source.PresetName

\* some pair has different actions and is not a carve-out
hasRealConflict(rs) ==
  \E i \in 1..Len(rs) : \E j \in (i + 1)..Len(rs) :
    rs[i].Action # rs[j].Action /\ ~isCarveOut(rs[i], rs[j])

\* toReadRules sending the winner of every key to the read list
toReadRulesAlways(mode) == TRUE

\* does the winner of a key go to the write list, to the read list
toWriteRules(mode) == ModeAnd(mode, AccessWrite) # 0
toReadRules(mode) == ModeAnd(mode, AccessRead) # 0 /\ mode # AccessWrite

\* resolveKey emitting every rule of the key instead of the winner
resolveKeyEmittingAll(key, acc) ==
  LET list == acc.rules[key] IN
  [acc EXCEPT
     !.w = IF toWriteRules(key.mode) THEN @ \o list ELSE @,
     !.r = IF toReadRules(key.mode) THEN @ \o list ELSE @]

\* one iteration of the loop of Resolve over the map, for one key; acc holds
\* the slices built so far and the map, whose slices resolveConflict sorts
\* in place
resolveKey(key, acc) ==
  LET list == acc.rules[key] IN
  IF Len(list) = 0 THEN acc
  ELSE IF Len(list) = 1
  THEN [acc EXCEPT
          !.w = IF toWriteRules(key.mode) THEN Append(@, list[1]) ELSE @,
          !.r = IF toReadRules(key.mode) THEN Append(@, list[1]) ELSE @]
  ELSE LET sorted == sortByPrecedence(list)
           winner == resolveConflict(list)
       IN [acc EXCEPT
             !.rules = [@ EXCEPT ![key] = sorted],
             !.c = IF hasRealConflict(sorted)
                   THEN Append(@, [Path |-> key.path, Rules |-> sorted,
                                   Resolution |-> winner,
                                   IsSamePreset |-> isSamePreset(sorted)])
                   ELSE @,
             !.w = IF toWriteRules(key.mode) THEN Append(@, winner) ELSE @,
             !.r = IF toReadRules(key.mode) THEN Append(@, winner) ELSE @]

RECURSIVE resolveKeys(_, _)
resolveKeys(order, acc) ==
  IF order = <<>> THEN acc
  ELSE resolveKeys(Tail(order), resolveKey(Head(order), acc))

\* the results of Resolve when the map is visited in the given order
resolveIn(order, rs) ==
  LET acc == resolveKeys(order, [w |-> <<>>, r |-> <<>>, c |-> <<>>, rules |-> rs])
  IN [writeRules |-> sortRulesBySpecificity(acc.w),
      readRules  |-> sortRulesBySpecificity(acc.r),
      conflicts  |-> acc.c,
      rules      |-> acc.rules]

Resolve ==
  /\ pc = "resolver"
  /\ \E order \in KeyOrders(DOMAIN rules) :
       LET res == resolveIn(order, rules) IN
       /\ rules' = res.rules
       /\ writeRules' = res.writeRules
       /\ readRules' = res.readRules
       /\ conflicts' = res.conflicts
  /\ prev' = IF calls = 0 THEN NoResult
             ELSE [writeRules |-> writeRules, readRules |-> readRules,
                   conflicts |-> conflicts]
  /\ calls' = IF calls < 2 THEN calls + 1 ELSE 2
  /\ UNCHANGED <<config, profile, stdout, err, pc, goos, linuxVars, callVars, validateVars, mainVars>>

(***************************************************************************)
(* macOS backend: synthesis of the sandbox profile.                        *)
(***************************************************************************)
\* a line of the profile: (verb op (filter "arg")); filter "" for a line
\* without a filter
Line(verb, op, filter, arg) ==
  [verb |-> verb, op |-> op, filter |-> filter, arg |-> arg]

\* the regex of the system temporary directories
TmpDirRegex ==
  <<"^", "/", "p", "r", "i", "v", "a", "t", "e", "/", "v", "a", "r", "/",
    "f", "o", "l", "d", "e", "r", "s", "/", "[", "^", "/", "]", "+", "/",
    "[", "^", "/", "]", "+", "/", "(", "C", "|", "T", "|", "0", ")", "(",
    "$", "|", "/", ")">>

KeychainDir ==
  <<"/", "L", "i", "b", "r", "a", "r", "y", "/", "K", "e", "y", "c", "h",
    "a", "i", "n", "s">>

\* the value of os.UserHomeDir when HOME is set
HomeDir == <<"/", "h">>

RECURSIVE Flatten(_)
Flatten(ss) == IF ss = <<>> THEN <<>> ELSE Head(ss) \o Flatten(Tail(ss))

\* strings.ReplaceAll(s, c, rep) for a one-character c
RECURSIVE ReplaceAll(_, _, _)
ReplaceAll(s, c, rep) ==
  IF s = <<>> THEN <<>>
  ELSE (IF Head(s) = c THEN rep ELSE <<Head(s)>>) \o ReplaceAll(Tail(s), c, rep)

escapePathForSandbox(path) ==
  ReplaceAll(ReplaceAll(path, "\\", <<"\\", "\\">>), "\"", <<"\\", "\"">>)

RegexMeta == {".", "(", ")", "[", "]", "{", "}", "+", "^", "$", "|", "\\"}

RECURSIVE globBody(_, _)
globBody(pattern, i) ==
  IF i > Len(pattern) THEN <<>>
  ELSE LET c == pattern[i] IN
       IF c = "*"
       THEN IF i + 1 <= Len(pattern) /\ pattern[i + 1] = "*"
            THEN <<".", "*">> \o globBody(pattern, i + 2)
            ELSE <<"[", "^", "/", "]", "*">> \o globBody(pattern, i + 1)
       ELSE IF c = "?" THEN <<"[", "^", "/", "]">> \o globBody(pattern, i + 1)
       ELSE IF c \in RegexMeta THEN <<"\\", c>> \o globBody(pattern, i + 1)
       ELSE <<c>> \o globBody(pattern, i + 1)

\* globToSBPLRegex without the anchor
globToSBPLRegexUnanchored(pattern) ==
  globBody(pattern, 1) \o <<"(", "$", "|", "/", ")">>

globToSBPLRegex(pattern) ==
  <<"^">> \o globBody(pattern, 1) \o <<"(", "$", "|", "/", ")">>

\* denyOp naming file-read* for a read deny
denyOpReadStar(mode) == IF mode = AccessRead THEN "file-read*" ELSE "file-write*"

\* the operation a deny of the given access mode names
denyOp(mode) == IF mode = AccessRead THEN "file-read-data" ELSE "file-write*"

emitDenyRule(rule, mode) ==
  IF rule.IsGlob
  THEN Line("deny", denyOp(mode), "regex", globToSBPLRegex(rule.Path))
  ELSE Line("deny", denyOp(mode), "subpath", escapePathForSandbox(rule.Path))

\* the subpath and literal allow lines of one path
allowPair(op, path) ==
  << Line("allow", op, "subpath", escapePathForSandbox(path)),
     Line("allow", op, "literal", escapePathForSandbox(path)) >>

\* the read allows of the except entries of one deny rule
\* exceptAllows restoring write access as well
exceptAllowsWrite(rule) ==
  Flatten([i \in 1..Len(rule.Except) |->
    allowPair("file-read-data", rule.Except[i])
    \o allowPair("file-write*", rule.Except[i])])

exceptAllows(rule) ==
  Flatten([i \in 1..Len(rule.Except) |-> allowPair("file-read-data", rule.Except[i])])

\* the loops of generateSandboxProfile over the write and the read rules
writeDenies(rs) ==
  Flatten([i \in 1..Len(rs) |->
    IF rs[i].Action = ActionDeny THEN <<emitDenyRule(rs[i], AccessWrite)>> ELSE <<>>])

\* readDeniesOfWriteRules without the test of the READ bit
readDeniesOfAllWriteRules(rs) ==
  Flatten([i \in 1..Len(rs) |->
    IF rs[i].Action = ActionDeny THEN <<emitDenyRule(rs[i], AccessRead)>> ELSE <<>>])

readDeniesOfWriteRules(rs) ==
  Flatten([i \in 1..Len(rs) |->
    IF rs[i].Action = ActionDeny /\ ModeAnd(rs[i].Mode, AccessRead) # 0
    THEN <<emitDenyRule(rs[i], AccessRead)>> ELSE <<>>])

readDenies(rs) ==
  Flatten([i \in 1..Len(rs) |->
    IF rs[i].Action = ActionDeny THEN <<emitDenyRule(rs[i], AccessRead)>> ELSE <<>>])

allows(op, rs) ==
  Flatten([i \in 1..Len(rs) |->
    IF rs[i].Action = ActionAllow THEN allowPair(op, rs[i].Path) ELSE <<>>])

exceptions(rs) ==
  Flatten([i \in 1..Len(rs) |->
    IF rs[i].Action = ActionDeny THEN exceptAllows(rs[i]) ELSE <<>>])

header ==
  << Line("version", "1", "", <<>>),
     Line("import", "system.sb", "", <<>>),
     Line("allow", "default", "", <<>>) >>

\* strictBlock emitting the read allows before the read denies
strictBlockAllowsFirst(cfg) ==
  << Line("deny", "file-read-data", "", <<>>),
     Line("allow", "file-read-data", "literal", <<"/">>) >>
  \o allows("file-read-data", cfg.ReadRules)
  \o readDenies(cfg.ReadRules)
  \o allows("file-read-data", cfg.WriteRules)
  \o exceptions(cfg.ReadRules)

strictBlock(cfg) ==
  << Line("deny", "file-read-data", "", <<>>),
     Line("allow", "file-read-data", "literal", <<"/">>) >>
  \o readDenies(cfg.ReadRules)
  \o allows("file-read-data", cfg.ReadRules)
  \o allows("file-read-data", cfg.WriteRules)
  \o exceptions(cfg.ReadRules)

\* generateSandboxProfile without the return under AllowAll
generateSandboxProfileRestricting(cfg, homeOK) ==
  IF cfg.AllowKeychain /\ ~homeOK
  THEN [text |-> <<>>, err |-> "get home directory"]
  ELSE [text |->
          header
          \o << Line("deny", "file-write*", "", <<>>),
                Line("allow", "file-write*", "regex", TmpDirRegex) >>
          \o writeDenies(cfg.WriteRules)
          \o allows("file-write*", cfg.WriteRules),
        err |-> ""]

\* generateSandboxProfile: the text and the error; homeOK tells whether
\* os.UserHomeDir succeeds
generateSandboxProfile(cfg, homeOK) ==
  IF cfg.AllowAll THEN [text |-> header, err |-> ""]
  ELSE IF cfg.AllowKeychain /\ ~homeOK
  THEN [text |-> <<>>, err |-> "get home directory"]
  ELSE [text |->
          header
          \o << Line("deny", "file-write*", "", <<>>),
                Line("allow", "file-write*", "regex", TmpDirRegex) >>
          \o (IF cfg.AllowKeychain
              THEN <<Line("allow", "file-write*", "subpath", HomeDir \o KeychainDir)>>
              ELSE <<>>)
          \o writeDenies(cfg.WriteRules)
          \o readDeniesOfWriteRules(cfg.WriteRules)
          \o allows("file-write*", cfg.WriteRules)
          \o exceptions(cfg.WriteRules)
          \o (IF cfg.Strict THEN strictBlock(cfg) ELSE <<>>),
        err |-> ""]

\* the SandboxConfig a caller builds from the results of Resolve
SandboxConfig(allowAll, allowKeychain, strict) ==
  [AllowAll |-> allowAll, AllowKeychain |-> allowKeychain, Strict |-> strict,
   WriteRules |-> writeRules, ReadRules |-> readRules, Conflicts |-> conflicts]

\* runInSandbox on macOS, called with the results of the one Resolve call of
\* the launcher: synthesize the profile, find sandbox-exec, exec
runInSandbox(cfg, homeOK, found) ==
  /\ goos = "darwin"
  /\ pc = "resolver"
  /\ calls = 1
  /\ config' = cfg
  /\ LET res == generateSandboxProfile(cfg, homeOK) IN
     IF res.err # ""
     THEN /\ profile' = <<>>
          /\ err' = "generate sandbox profile"
          /\ pc' = "failed"
     ELSE /\ profile' = res.text
          /\ IF found
             THEN err' = "" /\ pc' = "exec"
             ELSE err' = "sandbox-exec not found" /\ pc' = "failed"
  /\ UNCHANGED <<rules, writeRules, readRules, conflicts, calls, prev, stdout,
                 goos, linuxVars, callVars, validateVars, mainVars>>

(***************************************************************************)
(* macOS dry run.                                                          *)
(***************************************************************************)
formatRuleSource(rule) ==
  IF rule.Source.IsCLI THEN "CLI flag"
  ELSE IF rule.Source.PresetName # "" THEN rule.Source.PresetName
  ELSE "preset"

formatAccessMode(mode) ==
  CASE mode = AccessRead -> "read"
    [] mode = AccessWrite -> "write"
    [] mode = AccessReadWrite -> "read+write"
    [] OTHER -> "unknown"

actionStr(action) == IF action = ActionDeny THEN "deny" ELSE "allow"

\* printed lines
Text(s) == [kind |-> "text", text |-> s]
AllowItem(rule) ==
  [kind |-> "allow", path |-> rule.Path, source |-> formatRuleSource(rule)]
DenyItem(rule) ==
  [kind |-> "deny", path |-> rule.Path, mode |-> formatAccessMode(rule.Mode),
   glob |-> rule.IsGlob, source |-> formatRuleSource(rule)]
ExceptItem(exc) == [kind |-> "except", path |-> exc]
ConflictItem(c) ==
  [kind |-> "conflict", path |-> c.Path,
   type |-> IF c.IsSamePreset THEN "Intra-preset" ELSE "Cross-preset"]
ConflictRuleItem(rule) ==
  [kind |-> "conflict-rule", action |-> actionStr(rule.Action), path |-> rule.Path,
   mode |-> formatAccessMode(rule.Mode), source |-> formatRuleSource(rule)]
ResolutionItem(c) ==
  [kind |-> "resolution", action |-> actionStr(c.Resolution.Action),
   source |-> formatRuleSource(c.Resolution)]
ProfileItem(line) == [kind |-> "profile", line |-> line]

printDenyRule(rule) ==
  <<DenyItem(rule)>> \o [i \in 1..Len(rule.Except) |-> ExceptItem(rule.Except[i])]

allowItems(rs) ==
  Flatten([i \in 1..Len(rs) |->
    IF rs[i].Action = ActionAllow THEN <<AllowItem(rs[i])>> ELSE <<>>])

denyItems(rs) ==
  Flatten([i \in 1..Len(rs) |->
    IF rs[i].Action = ActionDeny THEN printDenyRule(rs[i]) ELSE <<>>])

\* the deny rules of the write rules, then those of the read rules, under
\* one heading printed before the first of them
denySection(cfg) ==
  LET items == denyItems(cfg.WriteRules) \o denyItems(cfg.ReadRules)
  IN IF items = <<>> THEN <<>> ELSE <<Text(""), Text("- Deny rules:")>> \o items

conflictSection(cs) ==
  IF Len(cs) = 0 THEN <<>>
  ELSE <<Text(""), Text("Rule Conflicts:"), Text("----")>>
       \o Flatten([i \in 1..Len(cs) |->
            <<ConflictItem(cs[i]), Text("  Conflicting rules:")>>
            \o [j \in 1..Len(cs[i].Rules) |-> ConflictRuleItem(cs[i].Rules[j])]
            \o <<ResolutionItem(cs[i]), Text("")>>])

rulesSection(cfg) ==
  IF cfg.AllowAll THEN <<Text("- Allow all operations (-allow-all flag)")>>
  ELSE << Text("- Allow all operations by default"),
          Text("- Deny all file writes"),
          Text("- Allow writes to:"),
          Text("  * System temporary directories") >>
       \o (IF cfg.AllowKeychain
           THEN <<Text("  * Keychain directories (-allow-keychain)")>> ELSE <<>>)
       \o allowItems(cfg.WriteRules)
       \o (IF cfg.Strict
           THEN << Text(""),
                   Text("- STRICT MODE: Deny all file reads by default"),
                   Text("- Allow reads to:") >>
                \o allowItems(cfg.ReadRules)
           ELSE <<>>)
       \o denySection(cfg)

\* what showDryRun prints, and the error it returns
dryRunOutput(cfg, homeOK) ==
  LET res == generateSandboxProfile(cfg, homeOK)
      top == << Text("Sandbox Profile (dry-run):"), Text("===="),
                Text("Version: macOS Sandbox v1"), Text("Base profile: system.sb"),
                Text(""), Text("Rules:") >>
             \o rulesSection(cfg)
             \o conflictSection(cfg.Conflicts)
             \o <<Text(""), Text("Raw profile:"), Text("----")>>
  IN IF res.err # "" THEN [out |-> top, err |-> "generate sandbox profile"]
     ELSE [out |-> top
                   \o [i \in 1..Len(res.text) |-> ProfileItem(res.text[i])]
                   \o <<Text("----"), Text(""), Text("Command:")>>,
           err |-> ""]

showDryRun(cfg, homeOK) ==
  /\ goos = "darwin"
  /\ pc = "resolver"
  /\ calls = 1
  /\ config' = cfg
  /\ LET res == dryRunOutput(cfg, homeOK) IN
     /\ stdout' = res.out
     /\ err' = res.err
     /\ pc' = IF res.err = "" THEN "dryrun" ELSE "failed"
  /\ UNCHANGED <<rules, writeRules, readRules, conflicts, calls, prev, profile,
                 goos, linuxVars, callVars, validateVars, mainVars>>

(***************************************************************************)
(* Linux backend: lowering of a SandboxConfig to Landlock rules.           *)
(***************************************************************************)
\* bound on the number of deny rules of a configuration
MaxDenyRules == 2

\* the directories and the regular files os.Stat finds; no other path exists
Directories ==
  { <<"/">>, <<"/", "a">>, <<"/", "a", "b">>, <<"/", "d", "e", "v">> }
Files ==
  { <<"/", "a", "/", "b">>, <<"/", "d", "e", "v", "/", "n", "u", "l", "l">> }

\* os.Stat followed by info.IsDir
Stat(path) ==
  IF path \in Directories THEN "dir"
  ELSE IF path \in Files THEN "file"
  ELSE "none"

DenyRule(pattern, modes, except) ==
  [Pattern |-> pattern, Modes |-> modes, IsGlob |-> ContainsChar(pattern, "*"),
   Except |-> except]

\* the SandboxConfig of the Linux build; AllowGit is unset
LinuxSandboxConfig(allowAll, strict, allowedPaths, readPaths, denyRules) ==
  [AllowAll |-> allowAll, Strict |-> strict, AllowedPaths |-> allowedPaths,
   ReadPaths |-> readPaths, DenyRules |-> denyRules]

NoLinuxConfig == LinuxSandboxConfig(FALSE, FALSE, <<>>, <<>>, <<>>)

\* slices.Sorted(maps.Keys(pathSet)): the paths of a set in ascending order
RECURSIVE Sorted(_)
Sorted(set) ==
  IF set = {} THEN <<>>
  ELSE LET least == CHOOSE x \in set : \A y \in set \ {x} : StrLess(x, y)
       IN <<least>> \o Sorted(set \ {least})

\* modifySandboxConfig: the allowed paths made absolute, without duplicates,
\* sorted
modifySandboxConfig(cfg) ==
  [cfg EXCEPT !.AllowedPaths =
     Sorted({ filepathAbs(cfg.AllowedPaths[i]) : i \in 1..Len(cfg.AllowedPaths) })]

\* a Landlock rule: RODirs, ROFiles, RWDirs or RWFiles on a path, with the
\* refer or ioctl_dev right added
LandlockRule(kind, path, refer, ioctlDev) ==
  [kind |-> kind, path |-> path, refer |-> refer, ioctlDev |-> ioctlDev]

\* a line written to standard error
Diag(level, what, path) == [level |-> level, what |-> what, path |-> path]

\* strict mode: a read-only rule for a path that exists
readOnlyRule(path) ==
  LET absPath == filepathAbs(path) IN
  CASE Stat(absPath) = "dir" -> <<LandlockRule("RODirs", absPath, FALSE, FALSE)>>
    [] Stat(absPath) = "file" -> <<LandlockRule("ROFiles", absPath, FALSE, FALSE)>>
    [] OTHER -> <<>>

\* strict mode: read-only rules for the read paths, then the allowed paths
strictReadRules(cfg) ==
  Flatten([i \in 1..Len(cfg.ReadPaths) |-> readOnlyRule(cfg.ReadPaths[i])])
  \o Flatten([i \in 1..Len(cfg.AllowedPaths) |-> readOnlyRule(cfg.AllowedPaths[i])])

\* readDenyWarning with one warning text for every rule
readDenyWarningUniform(rule) ==
  IF ModeAnd(rule.Modes, AccessRead) # 0
  THEN <<Diag("warning", "read deny cannot be enforced", rule.Pattern)>>
  ELSE <<>>

\* outside strict mode: the warning for a deny rule with the READ bit
readDenyWarning(rule) ==
  IF ModeAnd(rule.Modes, AccessRead) # 0
  THEN IF rule.IsGlob
       THEN <<Diag("warning", "glob pattern cannot be enforced", rule.Pattern)>>
       ELSE <<Diag("warning", "read deny cannot be enforced", rule.Pattern)>>
  ELSE <<>>

readDenyWarnings(cfg) ==
  Flatten([i \in 1..Len(cfg.DenyRules) |-> readDenyWarning(cfg.DenyRules[i])])

\* the write deny set: absolute paths of the literal deny rules with the
\* WRITE bit
writeDenySet(cfg) ==
  { filepathAbs(cfg.DenyRules[i].Pattern) :
      i \in { j \in 1..Len(cfg.DenyRules) :
                /\ ModeAnd(cfg.DenyRules[j].Modes, AccessWrite) # 0
                /\ ~cfg.DenyRules[j].IsGlob } }

\* shouldDenyWrite without the test of the paths under a denied directory
shouldDenyWriteExact(denySet, path) == path \in denySet

shouldDenyWrite(denySet, path) ==
  \/ path \in denySet
  \/ \E denied \in denySet : HasPrefix(path, denied \o <<"/">>)

DevDir == <<"/", "d", "e", "v">>

\* the read+write rule of an allowed path that is not denied
writeAllowRule(absPath) ==
  CASE Stat(absPath) = "none" -> <<>>
    [] Stat(absPath) = "dir" ->
         IF absPath = DevDir \/ HasPrefix(absPath, DevDir \o <<"/">>)
         THEN <<LandlockRule("RWDirs", absPath, FALSE, TRUE)>>
         ELSE <<LandlockRule("RWDirs", absPath, TRUE, FALSE)>>
    [] OTHER ->
         IF HasPrefix(absPath, DevDir \o <<"/">>)
         THEN <<LandlockRule("RWFiles", absPath, FALSE, TRUE)>>
         ELSE <<LandlockRule("RWFiles", absPath, FALSE, FALSE)>>

\* the loop over the allowed paths: rules appended and diagnostics written
writeAllows(cfg) ==
  LET denySet == writeDenySet(cfg)
      step(i) ==
        LET path == cfg.AllowedPaths[i]
            absPath == filepathAbs(path)
        IN IF shouldDenyWrite(denySet, absPath)
           THEN [rules |-> <<>>,
                 stderr |-> <<Diag("info", "skipping write allow", path)>>]
           ELSE [rules |-> writeAllowRule(absPath), stderr |-> <<>>]
  IN [rules |-> Flatten([i \in 1..Len(cfg.AllowedPaths) |-> step(i).rules]),
      stderr |-> Flatten([i \in 1..Len(cfg.AllowedPaths) |-> step(i).stderr])]

DevNull == <<"/", "d", "e", "v", "/", "n", "u", "l", "l">>

\* the rules runInSandbox hands to RestrictPaths and what it writes to
\* standard error on the way
buildRules(cfg) ==
  [rules |->
     (IF cfg.Strict THEN strictReadRules(cfg)
      ELSE <<LandlockRule("RODirs", <<"/">>, FALSE, FALSE)>>)
     \o <<LandlockRule("RWFiles", DevNull, FALSE, FALSE)>>
     \o writeAllows(cfg).rules,
   stderr |->
     (IF cfg.Strict THEN <<>> ELSE readDenyWarnings(cfg))
     \o writeAllows(cfg).stderr]

\* state of the resolver and of the macOS backend
darwinVars == <<rules, writeRules, readRules, conflicts, calls, prev, config,
                profile, stdout, err, pc>>

\* RunInSandbox building and keeping the rules under AllowAll as well
RunInSandboxRestricting(cfg) ==
  /\ goos = "linux"
  /\ linuxPc = "main"
  /\ linuxConfig' = modifySandboxConfig(cfg)
  /\ landlockRules' = buildRules(modifySandboxConfig(cfg)).rules
  /\ stderr' = buildRules(modifySandboxConfig(cfg)).stderr
  /\ linuxPc' = "restrict"
  /\ UNCHANGED <<restrict, linuxErr, goos, darwinVars, callVars, validateVars, mainVars>>

\* RestrictPaths whose error is not returned
RestrictPathsErrorDropped(ok) ==
  /\ goos = "linux"
  /\ linuxPc = "restrict"
  /\ restrict' = IF ok THEN "ok" ELSE "error"
  /\ linuxErr' = ""
  /\ linuxPc' = "lookpath"
  /\ UNCHANGED <<linuxConfig, landlockRules, stderr, goos, darwinVars, callVars, validateVars, mainVars>>

\* RunInSandbox on Linux: modifySandboxConfig, then runInSandbox up to its
\* first call out of the process: LookPath under AllowAll, else RestrictPaths
RunInSandbox(cfg) ==
  /\ goos = "linux"
  /\ linuxPc = "main"
  /\ LET c == modifySandboxConfig(cfg) IN
     /\ linuxConfig' = c
     /\ IF c.AllowAll
        THEN /\ landlockRules' = <<>>
             /\ stderr' = <<>>
             /\ linuxPc' = "lookpath"
        ELSE /\ landlockRules' = buildRules(c).rules
             /\ stderr' = buildRules(c).stderr
             /\ linuxPc' = "restrict"
  /\ UNCHANGED <<restrict, linuxErr, goos, darwinVars, callVars, validateVars, mainVars>>

\* landlock.V5.BestEffort().RestrictPaths(rules...) returns
RestrictPaths(ok) ==
  /\ goos = "linux"
  /\ linuxPc = "restrict"
  /\ restrict' = IF ok THEN "ok" ELSE "error"
  /\ linuxErr' = IF ok THEN "" ELSE "failed to apply Landlock restrictions"
  /\ linuxPc' = IF ok THEN "lookpath" ELSE "failed"
  /\ UNCHANGED <<linuxConfig, landlockRules, stderr, goos, darwinVars, callVars, validateVars, mainVars>>

\* exec.LookPath(config.Command) returns
LookPath(found) ==
  /\ goos = "linux"
  /\ linuxPc = "lookpath"
  /\ linuxErr' = IF found THEN "" ELSE "command not found"
  /\ linuxPc' = IF found THEN "execcall" ELSE "failed"
  /\ UNCHANGED <<linuxConfig, landlockRules, stderr, restrict, goos, darwinVars,
                 callVars, validateVars, mainVars>>

\* syscall.Exec replaces the process, or returns an error
Exec(ok) ==
  /\ goos = "linux"
  /\ linuxPc = "execcall"
  /\ linuxErr' = IF ok THEN ""
                 ELSE IF linuxConfig.AllowAll THEN "exec error"
                 ELSE "syscall.Exec failed"
  /\ linuxPc' = IF ok THEN "exec" ELSE "failed"
  /\ UNCHANGED <<linuxConfig, landlockRules, stderr, restrict, goos, darwinVars,
                 callVars, validateVars, mainVars>>

\* lists of allowed paths and of read paths a caller hands over
AllowedPathLists ==
  { <<>>,
    << <<"/", "a">> >>,
    << <<"/", "a", "/", "b">> >>,
    << <<"/", "a", "b">> >>,
    << <<"/", "c">> >>,
    << <<"/", "d", "e", "v">> >>,
    << <<"/", "d", "e", "v", "/", "n", "u", "l", "l">> >>,
    << <<"/", "a", "/", "b">>, <<"/", "a">> >>,
    << <<"/", "a", "b">>, <<".", "/", "b">> >> }

ReadPathLists ==
  { <<>>, << <<"/", "a">> >> }

\* deny rules a caller hands over: "/a", "/a" except "/a/b", write-only
\* "/a/b", the glob "/a/*", and "/dev/null"
DenyRuleInputs ==
  { DenyRule(<<"/", "a">>, AccessReadWrite, <<>>),
    DenyRule(<<"/", "a">>, AccessReadWrite, << <<"/", "a", "/", "b">> >>),
    DenyRule(<<"/", "a", "/", "b">>, AccessWrite, <<>>),
    DenyRule(<<"/", "a", "/", "*">>, AccessReadWrite, <<>>),
    DenyRule(DevNull, AccessReadWrite, <<>>) }

\* the lists of at most n deny rules
RECURSIVE DenyRuleLists(_)
DenyRuleLists(n) ==
  IF n = 0 THEN { <<>> }
  ELSE LET shorter == DenyRuleLists(n - 1) IN
       shorter \cup { Append(l, r) : l \in shorter, r \in DenyRuleInputs }

LinuxConfigs ==
  { LinuxSandboxConfig(allowAll, strict, allowedPaths, readPaths, denyRules) :
      allowAll \in BOOLEAN, strict \in BOOLEAN,
      allowedPaths \in AllowedPathLists, readPaths \in ReadPathLists,
      denyRules \in DenyRuleLists(MaxDenyRules) }

\* the configurations main can hand to RunInSandbox at the given position:
\* it does so once, from "main"
ConfigsAt(pos) == IF pos = "main" THEN LinuxConfigs ELSE {}

\* paths handed to pathContains
ContainsInputs ==
  { <<"/">>,
    <<"/", "h">>,
    <<"/", "h", "/">>,
    <<"/", "h", "/", "u">>,
    <<"/", "h", "/", "u", "X">>,
    <<"/", "h", "/", "u", ".", "c">>,
    <<"/", "h", "/", "u", "/", "d">>,
    <<"/", "h", "/", "u", "/", ".", ".", "/", "u", "/", "d">>,
    <<"/", "h", "/", "/", "u", "/", "d", "/", "e">>,
    <<"b">>,
    <<"/", "a", "/", "b", "/", "c">>,
    <<"/", "a">> }

\* a call of pathContains
pathContainsCall(p, c) ==
  /\ parent' = p
  /\ child' = c
  /\ contained' = IF pathContains(p, c) THEN "true" ELSE "false"
  /\ UNCHANGED <<goos, darwinVars, linuxVars, validateVars, mainVars>>

(***************************************************************************)
(* Validation of one preset's rules.                                       *)
(***************************************************************************)
ErrorDuplicate == 0
ErrorConflict == 1

RuleError(type, message, path, mode, preset) ==
  [Type |-> type, Message |-> message, Path |-> path, Mode |-> mode,
   Preset |-> preset]

\* the slice of a key, whatever the source of its rules
presetRulesOfAnySource(list, presetName) == list

\* presetRules[key]: the rules of the key whose source names the preset
presetRulesOf(list, presetName) ==
  SelectSeq(list, LAMBDA rule : rule.Source.PresetName = presetName)

\* the keys of presetRules
presetKeys(rs, presetName) ==
  { key \in DOMAIN rs : presetRulesOf(rs[key], presetName) # <<>> }

\* the body of the inner loop for rule1 = rules[i], rule2 = rules[j]
pairErrors(rule1, rule2, presetName) ==
  IF rule1.Action = rule2.Action
  THEN << RuleError(ErrorDuplicate, "duplicate rule", rule1.Path, rule1.Mode,
                    presetName) >>
  ELSE IF ~isCarveOut(rule1, rule2)
  THEN << RuleError(ErrorConflict, "conflicting actions for same path",
                    rule1.Path, rule1.Mode, presetName) >>
  ELSE <<>>

\* the two nested loops over one slice of presetRules: i, then j > i
keyErrors(list, presetName) ==
  Flatten([i \in 1..Len(list) |->
    Flatten([d \in 1..(Len(list) - i) |->
      pairErrors(list[i], list[i + d], presetName)])])

\* the errors of ValidatePreset when presetRules is visited in the given order
validateIn(order, rs, presetName) ==
  Flatten([n \in 1..Len(order) |->
    keyErrors(presetRulesOf(rs[order[n]], presetName), presetName)])

ValidatePreset(presetName) ==
  /\ pc = "resolver"
  /\ \E order \in KeyOrders(presetKeys(rules, presetName)) :
       errors' = validateIn(order, rules, presetName)
  /\ validated' = <<presetName>>
  /\ UNCHANGED <<goos, darwinVars, linuxVars, callVars, mainVars>>

(***************************************************************************)
(* main: the list of presets of an invocation.                             *)
(***************************************************************************)
PresetNames == {"p1", "p2", "p3"}

\* what the configuration holds under a preset name: a preset ("plain"), a
\* preset with skip-defaults: true ("skip"), nothing the name resolves to
\* ("missing"), a preset whose dynamic values cannot be expanded
\* ("unprocessable")
PresetKinds == {"plain", "skip", "missing", "unprocessable"}

\* flags.presets and flags.noDefaults
Flags(presets, noDefaults) == [presets |-> presets, noDefaults |-> noDefaults]

\* an entry of config.AutoPresets against the command of the invocation:
\* it matches ("yes"), does not ("no"), or cannot be evaluated ("error")
AutoPreset(match, presets) == [match |-> match, presets |-> presets]

\* the configuration: Defaults.Presets, AutoPresets, the presets by name
UserConfig(defaults, autoPresets, presets) ==
  [Defaults |-> defaults, AutoPresets |-> autoPresets, Presets |-> presets]

NoFlags == Flags(<<>>, FALSE)
NoUserConfig == UserConfig(<<>>, <<>>, [n \in PresetNames |-> "plain"])

\* config.ResolvePreset(presetName, nil): an error, or the resolved preset
ResolvePreset(cfg, presetName) ==
  [err |-> cfg.Presets[presetName] = "missing",
   SkipDefaults |-> cfg.Presets[presetName] = "skip"]

\* resolved.ProcessPreset(): an error, or the processed preset
ProcessPreset(cfg, presetName) ==
  [err |-> cfg.Presets[presetName] = "unprocessable"]

\* config.GetAutoPresets(args[0]): the presets of the first matching entry
RECURSIVE GetAutoPresets(_)
GetAutoPresets(entries) ==
  IF entries = <<>> THEN [err |-> FALSE, presets |-> <<>>]
  ELSE IF Head(entries).match = "error" THEN [err |-> TRUE, presets |-> <<>>]
  ELSE IF Head(entries).match = "yes"
  THEN [err |-> FALSE, presets |-> Head(entries).presets]
  ELSE GetAutoPresets(Tail(entries))

\* the loop deciding skipDefaults: a preset that does not resolve is passed
\* over, the first preset with skip-defaults ends the loop
RECURSIVE anySkipDefaults(_, _)
anySkipDefaults(cfg, presets) ==
  IF presets = <<>> THEN FALSE
  ELSE LET resolved == ResolvePreset(cfg, Head(presets)) IN
       IF resolved.err THEN anySkipDefaults(cfg, Tail(presets))
       ELSE IF resolved.SkipDefaults THEN TRUE
       ELSE anySkipDefaults(cfg, Tail(presets))

\* the defaults appended to the list instead of prepended
appendDefaults(defaults, presets) == presets \o defaults

\* append(config.Defaults.Presets, flags.presets...)
prependDefaults(defaults, presets) == defaults \o presets

\* auto-detect presets and merge them with the command-line presets
detectAutoPresets ==
  /\ mainPc = "args"
  /\ LET res == GetAutoPresets(userConfig.AutoPresets) IN
     IF Len(userConfig.AutoPresets) > 0 /\ res.err
     THEN /\ mainErr' = <<"error detecting auto-presets">>
          /\ mainPc' = "exit1"
          /\ UNCHANGED flags
     ELSE /\ flags' = IF Len(userConfig.AutoPresets) > 0
                      THEN [flags EXCEPT !.presets = @ \o res.presets]
                      ELSE flags
          /\ mainPc' = "skipcheck"
          /\ UNCHANGED mainErr
  /\ UNCHANGED <<userConfig, invocation, processed>>
  /\ UNCHANGED <<goos, darwinVars, linuxVars, callVars, validateVars>>

\* determine skipDefaults and apply the default presets
applyDefaults ==
  /\ mainPc = "skipcheck"
  /\ LET skipDefaults == \/ flags.noDefaults
                         \/ anySkipDefaults(userConfig, flags.presets)
     IN flags' = IF ~skipDefaults /\ Len(userConfig.Defaults) > 0
                 THEN [flags EXCEPT
                         !.presets = prependDefaults(userConfig.Defaults, @)]
                 ELSE flags
  /\ mainPc' = "process"
  /\ UNCHANGED <<userConfig, invocation, processed, mainErr>>
  /\ UNCHANGED <<goos, darwinVars, linuxVars, callVars, validateVars>>

\* one iteration of the loop processing each preset
processPreset ==
  /\ mainPc = "process"
  /\ processed < Len(flags.presets)
  /\ LET presetName == flags.presets[processed + 1] IN
     IF ResolvePreset(userConfig, presetName).err
     THEN /\ mainErr' = <<"preset not resolved", presetName>>
          /\ mainPc' = "exit1"
          /\ UNCHANGED processed
     ELSE IF ProcessPreset(userConfig, presetName).err
     THEN /\ mainErr' = <<"error processing preset", presetName>>
          /\ mainPc' = "exit1"
          /\ UNCHANGED processed
     ELSE /\ processed' = processed + 1
          /\ UNCHANGED <<mainErr, mainPc>>
  /\ UNCHANGED <<flags, userConfig, invocation>>
  /\ UNCHANGED <<goos, darwinVars, linuxVars, callVars, validateVars>>

\* the loop is over: create the sandbox configuration
createSandboxConfig ==
  /\ mainPc = "process"
  /\ processed = Len(flags.presets)
  /\ mainPc' = "configured"
  /\ UNCHANGED <<flags, userConfig, invocation, processed, mainErr>>
  /\ UNCHANGED <<goos, darwinVars, linuxVars, callVars, validateVars>>

\* the dry run, or the execution in the sandbox
execute ==
  /\ mainPc = "configured"
  /\ mainPc' = "run"
  /\ UNCHANGED <<flags, userConfig, invocation, processed, mainErr>>
  /\ UNCHANGED <<goos, darwinVars, linuxVars, callVars, validateVars>>

\* the presets named by --preset, in order
PresetFlagLists ==
  { <<>>, <<"p1">>, <<"p1", "p2">>, <<"p2", "p1">> }

\* config.Defaults.Presets
DefaultsLists == { <<>>, <<"p3">> }

\* config.AutoPresets against the command: none declared, none matching,
\* one matching, the second matching, one that cannot be evaluated
AutoPresetLists ==
  { <<>>,
    << AutoPreset("no", <<"p2">>) >>,
    << AutoPreset("yes", <<"p2">>) >>,
    << AutoPreset("no", <<"p1">>), AutoPreset("yes", <<"p2", "p3">>) >>,
    << AutoPreset("error", <<>>) >> }

Invocations == { Flags(p, n) : p \in PresetFlagLists, n \in BOOLEAN }

UserConfigs ==
  { UserConfig(d, a, t) :
      d \in DefaultsLists, a \in AutoPresetLists,
      t \in [PresetNames -> PresetKinds] }

(***************************************************************************)
(* Specification.                                                          *)
(***************************************************************************)
Init ==
  /\ rules = <<>>
  /\ writeRules = <<>>
  /\ readRules = <<>>
  /\ conflicts = <<>>
  /\ calls = 0
  /\ prev = NoResult
  /\ config = NoConfig
  /\ profile = <<>>
  /\ stdout = <<>>
  /\ err = ""
  /\ pc = "resolver"
  /\ goos = "darwin"
  /\ linuxConfig = NoLinuxConfig
  /\ landlockRules = <<>>
  /\ stderr = <<>>
  /\ restrict = "none"
  /\ linuxErr = ""
  /\ linuxPc = "main"
  /\ parent = <<>>
  /\ child = <<>>
  /\ contained = ""
  /\ validated = <<>>
  /\ errors = <<>>
  /\ invocation = NoFlags
  /\ flags = NoFlags
  /\ userConfig = NoUserConfig
  /\ processed = 0
  /\ mainErr = <<>>
  /\ mainPc = "args"

Next ==
  \/ \E path \in RawPaths, source \in Sources : AddAllowRule(path, source)
  \/ \E path \in RawPaths, except \in ExceptLists, source \in Sources :
       AddDenyRule(path, except, source)
  \/ \E path \in RawPaths, source \in Sources : AddReadRule(path, source)
  \/ \E rule \in DirectRules : addRule(rule)
  \/ Resolve

Spec == Init /\ [][Next]_vars

(***************************************************************************)
(* Specification of the resolver feeding the macOS backend: rules from the *)
(* command line and one preset.                                            *)
(***************************************************************************)
DarwinSources == {CLISource, PresetSource("p1")}

\* the outcomes of os.UserHomeDir, which generateSandboxProfile calls only
\* for the keychain allowance
HomeOutcomes(allowAll, allowKeychain) ==
  IF allowKeychain /\ ~allowAll THEN BOOLEAN ELSE {TRUE}

NextDarwin ==
  \/ \E path \in RawPaths, source \in DarwinSources : AddAllowRule(path, source)
  \/ \E path \in RawPaths, except \in ExceptLists, source \in DarwinSources :
       AddDenyRule(path, except, source)
  \/ \E path \in RawPaths, source \in DarwinSources : AddReadRule(path, source)
  \/ \E rule \in { r \in DirectRules : r.Source = CLISource } : addRule(rule)
  \/ Resolve
  \/ \E allowAll, allowKeychain, strict, found \in BOOLEAN :
       \E homeOK \in HomeOutcomes(allowAll, allowKeychain) :
         runInSandbox(SandboxConfig(allowAll, allowKeychain, strict), homeOK, found)
  \/ \E allowAll, allowKeychain, strict \in BOOLEAN :
       \E homeOK \in HomeOutcomes(allowAll, allowKeychain) :
         showDryRun(SandboxConfig(allowAll, allowKeychain, strict), homeOK)

SpecDarwin == Init /\ [][NextDarwin]_vars

(***************************************************************************)
(* Specification of the Linux launcher.                                    *)
(***************************************************************************)
InitLinux ==
  /\ rules = <<>>
  /\ writeRules = <<>>
  /\ readRules = <<>>
  /\ conflicts = <<>>
  /\ calls = 0
  /\ prev = NoResult
  /\ config = NoConfig
  /\ profile = <<>>
  /\ stdout = <<>>
  /\ err = ""
  /\ pc = "resolver"
  /\ goos = "linux"
  /\ linuxConfig = NoLinuxConfig
  /\ landlockRules = <<>>
  /\ stderr = <<>>
  /\ restrict = "none"
  /\ linuxErr = ""
  /\ linuxPc = "main"
  /\ parent = <<>>
  /\ child = <<>>
  /\ contained = ""
  /\ validated = <<>>
  /\ errors = <<>>
  /\ invocation = NoFlags
  /\ flags = NoFlags
  /\ userConfig = NoUserConfig
  /\ processed = 0
  /\ mainErr = <<>>
  /\ mainPc = "args"

NextLinux ==
  \/ \E cfg \in ConfigsAt(linuxPc) : RunInSandbox(cfg)
  \/ \E ok \in BOOLEAN : RestrictPaths(ok)
  \/ \E found \in BOOLEAN : LookPath(found)
  \/ \E ok \in BOOLEAN : Exec(ok)

SpecLinux == InitLinux /\ [][NextLinux]_vars

(***************************************************************************)
(* Specification of pathContains over its inputs.                          *)
(***************************************************************************)
NextPathContains ==
  \E p \in ContainsInputs, c \in ContainsInputs : pathContainsCall(p, c)

SpecPathContains == Init /\ [][NextPathContains]_vars

(***************************************************************************)
(* Specification of both builds: the launcher is built for one platform.   *)
(***************************************************************************)
InitBackends == Init \/ InitLinux

NextBackends ==
  \/ goos = "darwin" /\ NextDarwin
  \/ goos = "linux" /\ NextLinux

SpecBackends == InitBackends /\ [][NextBackends]_vars

(***************************************************************************)
(* Specification of the resolver with the validation of presets.           *)
(***************************************************************************)
\* the paths of the rules of the validated presets: "/a" and "/a/b"
ValidatePaths == { <<"/", "a">>, <<"/", "a", "/", "b">> }

NextValidate ==
  \/ \E path \in ValidatePaths, source \in Sources : AddAllowRule(path, source)
  \/ \E path \in ValidatePaths, source \in Sources :
       AddDenyRule(path, <<>>, source)
  \/ \E path \in ValidatePaths, source \in Sources : AddReadRule(path, source)
  \/ \E rule \in DirectRules : addRule(rule)
  \/ Resolve
  \/ \E presetName \in {"p1", "p2"} : ValidatePreset(presetName)

SpecValidate == Init /\ [][NextValidate]_vars

(***************************************************************************)
(* Specification of main building the list of presets.                     *)
(***************************************************************************)
InitMain ==
  /\ rules = <<>>
  /\ writeRules = <<>>
  /\ readRules = <<>>
  /\ conflicts = <<>>
  /\ calls = 0
  /\ prev = NoResult
  /\ config = NoConfig
  /\ profile = <<>>
  /\ stdout = <<>>
  /\ err = ""
  /\ pc = "resolver"
  /\ goos = "darwin"
  /\ linuxConfig = NoLinuxConfig
  /\ landlockRules = <<>>
  /\ stderr = <<>>
  /\ restrict = "none"
  /\ linuxErr = ""
  /\ linuxPc = "main"
  /\ parent = <<>>
  /\ child = <<>>
  /\ contained = ""
  /\ validated = <<>>
  /\ errors = <<>>
  /\ invocation \in Invocations
  /\ flags = invocation
  /\ userConfig \in UserConfigs
  /\ processed = 0
  /\ mainErr = <<>>
  /\ mainPc = "args"

NextMain ==
  \/ detectAutoPresets
  \/ applyDefaults
  \/ processPreset
  \/ createSandboxConfig
  \/ execute

SpecMain == InitMain /\ [][NextMain]_vars

(***************************************************************************)
(* Specification of the macOS profile over paths with glob characters,     *)
(* regex metacharacters, backslashes and double quotes.                    *)
(***************************************************************************)
\* "/Users/*/secret", "/a/**", "/a/?*", "/a/.b*", "/a/(b)[b]{b}+^$|*",
\* "/a/b\*", "/a/"*", "/a/"b", "/a/b\", "/a"
ProfilePaths ==
  { <<"/", "U", "s", "e", "r", "s", "/", "*", "/", "s", "e", "c", "r", "e", "t">>,
    <<"/", "a", "/", "*", "*">>,
    <<"/", "a", "/", "?", "*">>,
    <<"/", "a", "/", ".", "b", "*">>,
    <<"/", "a", "/", "(", "b", ")", "[", "b", "]", "{", "b", "}", "+", "^",
      "$", "|", "*">>,
    <<"/", "a", "/", "b", "\\", "*">>,
    <<"/", "a", "/", "\"", "*">>,
    <<"/", "a", "/", "\"", "b">>,
    <<"/", "a", "/", "b", "\\">>,
    <<"/", "a">> }

\* except lists: none, and "/a/"b\"
ProfileExcepts == { <<>>, << <<"/", "a", "/", "\"", "b", "\\">> >> }

NextProfilePaths ==
  \/ \E path \in ProfilePaths : AddAllowRule(path, CLISource)
  \/ \E path \in ProfilePaths, except \in ProfileExcepts :
       AddDenyRule(path, except, CLISource)
  \/ Resolve
  \/ \E strict \in BOOLEAN :
       runInSandbox(SandboxConfig(FALSE, FALSE, strict), TRUE, TRUE)

SpecProfilePaths == Init /\ [][NextProfilePaths]_vars

(***************************************************************************)
(* Properties of the resolver.                                             *)
(***************************************************************************)
\* the set of elements of a sequence
Range(s) == { s[i] : i \in 1..Len(s) }

\* the rules of the write and of the read list that carry the given key
emittedFor(path, mode) ==
  { r \in Range(writeRules) \cup Range(readRules) : r.Path = path /\ r.Mode = mode }

\* no two entries of a list share path and mode
distinctKeys(rs) ==
  \A i, j \in 1..Len(rs) :
    i # j => ~(rs[i].Path = rs[j].Path /\ rs[i].Mode = rs[j].Mode)

\* C1: Resolve emits at most one rule per (path, mode) key: no two entries
\* of the write list share path and mode, nor do two entries of the read list.
C1_OneRulePerKey == distinctKeys(writeRules) /\ distinctKeys(readRules)

\* a key holding several rules was resolved into one entry of the write
\* list and one entry of the read list
C1_Witness ==
  /\ calls >= 1
  /\ Len(writeRules) = 1
  /\ Len(readRules) = 1
  /\ \E k \in DOMAIN rules : Len(rules[k]) >= 2 /\ k.mode = AccessReadWrite

\* the carve-out pairs held by the resolver: a deny and an allow strictly
\* inside it
CarveOutPairs ==
  { pair \in (UNION { Range(rules[k]) : k \in DOMAIN rules })
             \X (UNION { Range(rules[k]) : k \in DOMAIN rules }) :
      /\ pair[1].Action = ActionDeny
      /\ pair[2].Action = ActionAllow
      /\ pathContains(pair[1].Path, pair[2].Path) }

\* the rule is the only one held for its path and mode
aloneInKey(rule) ==
  \A k \in DOMAIN rules :
    (k.path = rule.Path /\ k.mode = rule.Mode) => rules[k] = <<rule>>

\* the rule is in the output lists its mode selects
emitted(rule) ==
  /\ toWriteRules(rule.Mode) => rule \in Range(writeRules)
  /\ toReadRules(rule.Mode) => rule \in Range(readRules)

contended(k) ==
  /\ \E i \in 1..Len(rules[k]) : rules[k][i].Source.IsCLI
  /\ \E i \in 1..Len(rules[k]) : ~rules[k][i].Source.IsCLI

\* C3: CLI dominance: for a key holding a rule from the command line and a
\* rule from a preset, the rule emitted for the key, and the Resolution of
\* the key's conflict record, come from the command line.
C3_CLIDominance ==
  calls >= 1 =>
    \A k \in DOMAIN rules :
      contended(k) =>
        /\ emittedFor(k.path, k.mode) # {}
        /\ \A r \in emittedFor(k.path, k.mode) : r.Source.IsCLI
        /\ \A n \in 1..Len(conflicts) :
             (conflicts[n].Path = k.path /\ conflicts[n].Rules[1].Mode = k.mode)
               => conflicts[n].Resolution.Source.IsCLI

\* a deny from the command line won over an allow from a preset, and the
\* conflict was recorded
C3_Witness ==
  /\ calls >= 1
  /\ \E k \in DOMAIN rules :
       /\ contended(k)
       /\ \E i \in 1..Len(rules[k]) :
            rules[k][i].Source.IsCLI /\ rules[k][i].Action = ActionDeny
       /\ \E i \in 1..Len(rules[k]) :
            ~rules[k][i].Source.IsCLI /\ rules[k][i].Action = ActionAllow
       /\ \E n \in 1..Len(conflicts) :
            /\ conflicts[n].Path = k.path
            /\ conflicts[n].Resolution.Action = ActionDeny
            /\ conflicts[n].Resolution.Source.IsCLI

\* the rules of a key come from one source tier and hold both actions
sameTierConflict(k) ==
  /\ \A i, j \in 1..Len(rules[k]) :
       rules[k][i].Source.IsCLI = rules[k][j].Source.IsCLI
  /\ \E i \in 1..Len(rules[k]) : rules[k][i].Action = ActionAllow
  /\ \E i \in 1..Len(rules[k]) : rules[k][i].Action = ActionDeny

\* C4: ALLOW dominance: for a key whose rules all come from the command
\* line or all from presets and hold an allow and a deny, the emitted rule
\* is an allow.
C4_AllowDominance ==
  calls >= 1 =>
    \A k \in DOMAIN rules :
      sameTierConflict(k) =>
        /\ emittedFor(k.path, k.mode) # {}
        /\ \A r \in emittedFor(k.path, k.mode) : r.Action = ActionAllow

\* two presets disagree on a key, and the allow is in the read list
C4_Witness ==
  /\ calls >= 1
  /\ \E k \in DOMAIN rules :
       /\ sameTierConflict(k)
       /\ \E i, j \in 1..Len(rules[k]) :
            rules[k][i].Source.PresetName # rules[k][j].Source.PresetName
       /\ \E r \in Range(readRules) :
            r.Path = k.path /\ r.Mode = k.mode /\ r.Action = ActionAllow

\* C5: idempotence: a second Resolve call with no rule added in between
\* returns the write rules, read rules and conflicts of the first.
C5_Idempotent ==
  calls = 2 =>
    prev = [writeRules |-> writeRules, readRules |-> readRules,
            conflicts |-> conflicts]

(***************************************************************************)
(* Evaluation of a profile by the sandbox: the rules apply top to bottom,  *)
(* a later matching rule overriding an earlier one.                        *)
(***************************************************************************)
\* the string a quoted SBPL string denotes: a backslash quotes the next
\* character
RECURSIVE Unescape(_)
Unescape(s) ==
  IF s = <<>> THEN <<>>
  ELSE IF Head(s) = "\\" /\ Len(s) >= 2 THEN <<s[2]>> \o Unescape(SubSeq(s, 3, Len(s)))
  ELSE <<Head(s)>> \o Unescape(Tail(s))

\* re[i..] begins with the text t
At(re, i, t) == i + Len(t) - 1 <= Len(re) /\ SubSeq(re, i, i + Len(t) - 1) = t

\* the regex re, from position i, matches s from position j on; the regexes
\* are those globToSBPLRegex writes
RECURSIVE MatchRe(_, _, _, _)
MatchRe(re, i, s, j) ==
  IF i > Len(re) THEN TRUE
  ELSE IF i = 1 /\ re[i] = "^" THEN MatchRe(re, 2, s, j)
  ELSE IF At(re, i, <<"(", "$", "|", "/", ")">>)
       THEN j = Len(s) + 1 \/ (j <= Len(s) /\ s[j] = "/")
  ELSE IF At(re, i, <<".", "*">>)
       THEN \E k \in j..(Len(s) + 1) : MatchRe(re, i + 2, s, k)
  ELSE IF At(re, i, <<"[", "^", "/", "]", "*">>)
       THEN \E k \in j..(Len(s) + 1) :
              /\ \A m \in j..(k - 1) : s[m] # "/"
              /\ MatchRe(re, i + 5, s, k)
  ELSE IF At(re, i, <<"[", "^", "/", "]">>)
       THEN j <= Len(s) /\ s[j] # "/" /\ MatchRe(re, i + 4, s, j + 1)
  ELSE IF re[i] = "\\" /\ i < Len(re)
       THEN j <= Len(s) /\ s[j] = re[i + 1] /\ MatchRe(re, i + 2, s, j + 1)
  ELSE j <= Len(s) /\ s[j] = re[i] /\ MatchRe(re, i + 1, s, j + 1)

\* the filter of a line matches the path q
matches(line, q) ==
  CASE line.filter = "" -> TRUE
    [] line.filter = "literal" -> q = Unescape(line.arg)
    [] line.filter = "subpath" ->
         LET base == Unescape(line.arg) IN
         q = base \/ HasPrefix(q, IF base = <<"/">> THEN base ELSE base \o <<"/">>)
    [] line.filter = "regex" -> MatchRe(line.arg, 1, q, 1)
    [] OTHER -> FALSE

\* the operations that decide a read of file data
ReadOps == {"default", "file-read*", "file-read-data"}

\* the decision on reading q after the given lines, allowed being the
\* decision before them
RECURSIVE decideRead(_, _, _)
decideRead(text, q, allowed) ==
  IF text = <<>> THEN allowed
  ELSE LET line == Head(text) IN
       IF line.verb \in {"allow", "deny"} /\ line.op \in ReadOps /\ matches(line, q)
       THEN decideRead(Tail(text), q, line.verb = "allow")
       ELSE decideRead(Tail(text), q, allowed)

mayRead(text, q) == decideRead(text, q, FALSE)

\* the paths whose reading is evaluated
ProbePaths ==
  { <<"/">>, <<"/", "a">>, <<"/", "a", "/", "b">>, <<"/", "a", "/", "c">>,
    <<"/", "c">> }

(***************************************************************************)
(* Properties of the macOS backend.                                        *)
(***************************************************************************)
\* number of occurrences of x in a sequence
Count(s, x) == Cardinality({ i \in 1..Len(s) : s[i] = x })

\* the profile of the configuration with the strict flag set as given
profileWithStrict(strict) ==
  generateSandboxProfile([config EXCEPT !.Strict = strict], TRUE).text

\* C6: monotonicity of strictness: every path whose file data may be read
\* under the profile of a strict configuration may be read under the
\* profile of the same configuration without strict.
C6_StrictNeverWidensReads ==
  (pc = "exec" /\ config.Strict) =>
    \A q \in ProbePaths :
      mayRead(profile, q) => mayRead(profileWithStrict(FALSE), q)

\* the literal READ+WRITE denies of the write rules of the configuration
literalReadWriteDenies ==
  { r \in Range(config.WriteRules) :
      r.Action = ActionDeny /\ r.Mode = AccessReadWrite /\ ~r.IsGlob }

writeDenyLine(path) ==
  Line("deny", "file-write*", "subpath", escapePathForSandbox(path))
readDenyLine(path) ==
  Line("deny", "file-read-data", "subpath", escapePathForSandbox(path))

\* C7: in strict mode, a READ+WRITE deny on a literal path, present in the
\* write rules and in the read rules, yields exactly one write deny line and
\* exactly one read-data deny line.
C7_StrictDenyOnce ==
  (pc = "exec" /\ config.Strict /\ ~config.AllowAll) =>
    \A r \in literalReadWriteDenies :
      r \in Range(config.ReadRules) =>
        /\ Count(profile, writeDenyLine(r.Path)) = 1
        /\ Count(profile, readDenyLine(r.Path)) = 1

\* the profile does not depend on the read rules
readRulesNotConsulted ==
  profile = generateSandboxProfile([config EXCEPT !.ReadRules = <<>>], TRUE).text

\* C8, as claimed: outside strict mode, every READ+WRITE deny on a literal
\* path in the write rules yields exactly one write deny line and exactly
\* one read-data deny line, and the read rules are not consulted.
C8_NonStrictDenyOnce ==
  (pc = "exec" /\ ~config.Strict /\ ~config.AllowAll) =>
    /\ readRulesNotConsulted
    /\ \A r \in literalReadWriteDenies :
         /\ Count(profile, writeDenyLine(r.Path)) = 1
         /\ Count(profile, readDenyLine(r.Path)) = 1

\* the deny rules of the write rules on the given path
writeDeniesOn(path) ==
  { i \in 1..Len(config.WriteRules) :
      config.WriteRules[i].Action = ActionDeny /\ config.WriteRules[i].Path = path }

\* C8, amended: outside strict mode, every READ+WRITE deny on a literal path
\* in the write rules yields exactly one read-data deny line, and one write
\* deny line per deny rule on that path in the write rules: exactly one
\* unless the write rules also hold a WRITE-only deny on the path; the read
\* rules are not consulted.
C8_NonStrictDenyLines ==
  (pc = "exec" /\ ~config.Strict /\ ~config.AllowAll) =>
    /\ readRulesNotConsulted
    /\ \A r \in literalReadWriteDenies :
         /\ Count(profile, readDenyLine(r.Path)) = 1
         /\ Count(profile, writeDenyLine(r.Path)) = Cardinality(writeDeniesOn(r.Path))
         /\ (Count(profile, writeDenyLine(r.Path)) = 1
               <=> ~\E w \in Range(config.WriteRules) :
                      /\ w.Action = ActionDeny
                      /\ w.Path = r.Path
                      /\ w.Mode = AccessWrite)

\* a profile was synthesized outside strict mode for a READ+WRITE deny that
\* is also in the read rules
C8_Witness ==
  /\ pc = "exec"
  /\ ~config.Strict
  /\ ~config.AllowAll
  /\ \E r \in literalReadWriteDenies :
       /\ r \in Range(config.ReadRules)
       /\ Count(profile, readDenyLine(r.Path)) = 1

\* the summary of the dry run: what is printed before "Raw profile:"
RECURSIVE upTo(_, _)
upTo(out, stop) ==
  IF out = <<>> \/ Head(out) = stop THEN <<>>
  ELSE <<Head(out)>> \o upTo(Tail(out), stop)

summary == upTo(stdout, Text("Raw profile:"))

\* C9: the summary of the dry run lists each resolved deny rule exactly
\* once, in strict mode, also a READ+WRITE deny that is in the write rules
\* and in the read rules.
C9_SummaryListsDenyOnce ==
  (pc = "dryrun" /\ config.Strict /\ ~config.AllowAll) =>
    \A r \in Range(config.WriteRules) \cup Range(config.ReadRules) :
      r.Action = ActionDeny => Count(summary, DenyItem(r)) = 1

\* the lines of the synthesized profile: handed to sandbox-exec, or printed
\* by the dry run
profileLines ==
  IF pc = "exec" THEN profile
  ELSE IF pc = "dryrun"
       THEN Flatten([i \in 1..Len(stdout) |->
              IF stdout[i].kind = "profile" THEN <<stdout[i].line>> ELSE <<>>])
       ELSE <<>>

\* the filter and argument a rule is lowered to in a deny line
denyTarget(rule) ==
  IF rule.IsGlob THEN <<"regex", globToSBPLRegex(rule.Path)>>
  ELSE <<"subpath", escapePathForSandbox(rule.Path)>>

hasLine(verb, op, target) == Line(verb, op, target[1], target[2]) \in Range(profileLines)

\* C10: no line of the profile names file-read*: every read deny, the
\* strict global read deny, every read allow and every exception allow
\* names file-read-data, and every write deny names file-write*.
C10_NoFileReadStar ==
  /\ \A line \in Range(profileLines) :
       /\ line.op # "file-read*"
       /\ line.verb = "deny" => line.op \in {"file-write*", "file-read-data"}
       /\ line.verb = "allow" => line.op \in {"default", "file-write*", "file-read-data"}
  /\ (pc \in {"exec", "dryrun"} /\ ~config.AllowAll) =>
       /\ \A r \in Range(config.WriteRules) :
            /\ r.Action = ActionDeny => hasLine("deny", "file-write*", denyTarget(r))
            /\ (r.Action = ActionDeny /\ ModeAnd(r.Mode, AccessRead) # 0)
                 => hasLine("deny", "file-read-data", denyTarget(r))
            /\ r.Action = ActionDeny =>
                 \A i \in 1..Len(r.Except) :
                   hasLine("allow", "file-read-data",
                           <<"subpath", escapePathForSandbox(r.Except[i])>>)
       /\ config.Strict =>
            /\ hasLine("deny", "file-read-data", <<"", <<>> >>)
            /\ \A r \in Range(config.ReadRules) :
                 /\ r.Action = ActionDeny => hasLine("deny", "file-read-data", denyTarget(r))
                 /\ r.Action = ActionAllow =>
                      hasLine("allow", "file-read-data",
                              <<"subpath", escapePathForSandbox(r.Path)>>)

\* a strict profile holds the read-data deny of a glob rule and the
\* read-data allow of its exception
C10_Witness ==
  /\ pc = "exec"
  /\ config.Strict
  /\ \E r \in Range(config.ReadRules) :
       /\ r.Action = ActionDeny
       /\ r.IsGlob
       /\ r.Except # <<>>
       /\ hasLine("deny", "file-read-data", denyTarget(r))
       /\ hasLine("allow", "file-read-data",
                  <<"subpath", escapePathForSandbox(r.Except[1])>>)

\* C11: under AllowAll the profile is exactly the three header lines and
\* holds no deny line, whatever the rules and the other flags are.
C11_AllowAllProfileIsHeader ==
  (pc \in {"exec", "dryrun"} /\ config.AllowAll) =>
    /\ profileLines = << Line("version", "1", "", <<>>),
                         Line("import", "system.sb", "", <<>>),
                         Line("allow", "default", "", <<>>) >>
    /\ \A line \in Range(profileLines) : line.verb # "deny"

\* a profile was synthesized under AllowAll for a strict configuration with
\* the keychain flag, a deny rule and read rules
C11_Witness ==
  /\ pc = "exec"
  /\ config.AllowAll
  /\ config.Strict
  /\ config.AllowKeychain
  /\ \E r \in Range(config.WriteRules) : r.Action = ActionDeny
  /\ config.ReadRules # <<>>
  /\ Len(profile) = 3

\* the rules without their exceptions
withoutExcept(rs) == [i \in 1..Len(rs) |-> [rs[i] EXCEPT !.Except = <<>>]]

isWriteLine(line) == line.op = "file-write*"

\* the deny rules the profile is synthesized from
profileDenyRules ==
  { r \in Range(config.WriteRules)
          \cup (IF config.Strict THEN Range(config.ReadRules) ELSE {}) :
      r.Action = ActionDeny }

\* the deny lines of a rule
isDenyLineOf(line, rule) ==
  /\ line.verb = "deny"
  /\ line.filter = denyTarget(rule)[1]
  /\ line.arg = denyTarget(rule)[2]

\* macOS: every exception of a deny rule has its two read-data allow lines
\* after the deny lines of the rule, and the file-write* lines are those of
\* the configuration without exceptions
exceptRestoresReadOnlyDarwin ==
  (pc \in {"exec", "dryrun"} /\ ~config.AllowAll) =>
    /\ \A r \in profileDenyRules : \A k \in 1..Len(r.Except) :
         LET exc == escapePathForSandbox(r.Except[k]) IN
         \E i \in 1..(Len(profileLines) - 1) :
           /\ profileLines[i] = Line("allow", "file-read-data", "subpath", exc)
           /\ profileLines[i + 1] = Line("allow", "file-read-data", "literal", exc)
           /\ \A j \in 1..Len(profileLines) :
                isDenyLineOf(profileLines[j], r) => j < i
    /\ SelectSeq(profileLines, isWriteLine)
         = SelectSeq(generateSandboxProfile(
                       [config EXCEPT !.WriteRules = withoutExcept(@),
                                      !.ReadRules = withoutExcept(@)],
                       TRUE).text,
                     isWriteLine)

\* Linux: the write deny set and the rules are those of the configuration
\* without exceptions
exceptRestoresReadOnlyLinux ==
  (linuxPc # "main" /\ ~linuxConfig.AllowAll) =>
    LET bare == [linuxConfig EXCEPT !.DenyRules = withoutExcept(@)] IN
    /\ writeDenySet(linuxConfig) = writeDenySet(bare)
    /\ landlockRules = buildRules(bare).rules

\* C12: exceptions restore read access only: on macOS every except entry of
\* a deny rule yields its read-data allow lines (subpath and literal) after
\* the deny lines of the rule and no file-write* allow line; on Linux an
\* except entry neither removes a path from the write deny set nor adds a
\* write rule.
C12_ExceptRestoresReadOnly ==
  /\ exceptRestoresReadOnlyDarwin
  /\ exceptRestoresReadOnlyLinux

\* a profile was synthesized for a deny rule with an exception
C12_Witness ==
  /\ pc = "exec"
  /\ ~config.AllowAll
  /\ \E r \in profileDenyRules :
       /\ r.Except # <<>>
       /\ Line("allow", "file-read-data", "subpath",
               escapePathForSandbox(r.Except[1])) \in Range(profile)

(***************************************************************************)
(* Properties of the Linux backend.                                        *)
(***************************************************************************)
\* runInSandbox has been entered with restrictions asked for
lowered == linuxPc # "main" /\ ~linuxConfig.AllowAll

\* C13: under AllowAll no Landlock rule is built and RestrictPaths is never
\* called: the target is looked up and executed directly, or the launch
\* fails with 'command not found' (or the error of exec) and nothing else.
C13_AllowAllInstallsNothing ==
  (linuxPc # "main" /\ linuxConfig.AllowAll) =>
    /\ landlockRules = <<>>
    /\ restrict = "none"
    /\ linuxPc \in {"lookpath", "execcall", "exec", "failed"}
    /\ linuxPc = "failed" => linuxErr \in {"command not found", "exec error"}

\* the target was executed under AllowAll for a configuration with deny
\* rules and allowed paths
C13_Witness ==
  /\ linuxPc = "exec"
  /\ linuxConfig.AllowAll
  /\ linuxConfig.DenyRules # <<>>
  /\ linuxConfig.AllowedPaths # <<>>
  /\ restrict = "none"

\* the literal deny rules with the WRITE bit
literalWriteDenies ==
  { r \in Range(linuxConfig.DenyRules) :
      ModeAnd(r.Modes, AccessWrite) # 0 /\ ~r.IsGlob }

\* path equals, or lies under, the path of a deny rule of the set
coveredBy(path, denies) ==
  \E r \in denies :
    \/ path = filepathAbs(r.Pattern)
    \/ HasPrefix(path, filepathAbs(r.Pattern) \o <<"/">>)

isReadWrite(rule) == rule.kind \in {"RWDirs", "RWFiles"}

\* the read+write rules installed on exactly the given path
readWriteRulesOn(path) ==
  { i \in 1..Len(landlockRules) :
      isReadWrite(landlockRules[i]) /\ landlockRules[i].path = path }

skipped(path) == Diag("info", "skipping write allow", path) \in Range(stderr)

implicitRulesOn(path) == IF path = DevNull THEN 1 ELSE 0

within(path, dir) ==
  \/ path = dir
  \/ dir = <<"/">>
  \/ HasPrefix(path, dir \o <<"/">>)

\* the rule covers the path
covers(rule, path) ==
  IF rule.kind \in {"RODirs", "RWDirs"} THEN within(path, rule.path)
  ELSE path = rule.path

grantsWrite(rs, path) ==
  \E i \in 1..Len(rs) : isReadWrite(rs[i]) /\ covers(rs[i], path)

\* every rule kind carries the right to read
grantsRead(rs, path) == \E i \in 1..Len(rs) : covers(rs[i], path)

\* the paths whose access is evaluated
LinuxProbePaths ==
  { <<"/", "a">>, <<"/", "a", "/", "b">>, <<"/", "a", "b">>, <<"/", "c">>,
    DevDir, DevNull }

\* the probe paths equal to or under the path of a deny rule of the set
deniedProbes(denies) == { q \in LinuxProbePaths : coveredBy(q, denies) }

\* C15: write denies are effective on Linux: no installed rule grants write
\* access to a path equal to or under the path of a literal deny rule.
C15_WriteDeniesEffective ==
  lowered =>
    \A q \in deniedProbes(literalWriteDenies) : ~grantsWrite(landlockRules, q)

\* the literal deny rules with the READ bit
literalReadDenies ==
  { r \in Range(linuxConfig.DenyRules) :
      ModeAnd(r.Modes, AccessRead) # 0 /\ ~r.IsGlob }

\* C16: in strict mode read denies are enforced on Linux: no rule is
\* installed for a path equal to or under the path of a literal deny rule,
\* and none for an ancestor of it, so the denied path is not readable.
C16_StrictReadDeniesEnforced ==
  (lowered /\ linuxConfig.Strict) =>
    /\ \A r \in literalReadDenies : \A i \in 1..Len(landlockRules) :
         LET denied == filepathAbs(r.Pattern)
             on == landlockRules[i].path
         IN ~within(on, denied) /\ ~within(denied, on)
    /\ \A q \in deniedProbes(literalReadDenies) : ~grantsRead(landlockRules, q)

isWarning(d) == d.level = "warning"

\* C17: outside strict mode every deny rule with the READ bit produces a
\* warning on standard error and the launch goes on: the 'glob pattern
\* cannot be enforced' warning for a glob rule, the 'read deny cannot be
\* enforced' warning for any other rule.
C17_ReadDenyWarned ==
  (lowered /\ ~linuxConfig.Strict) =>
    /\ \A r \in Range(linuxConfig.DenyRules) :
         ModeAnd(r.Modes, AccessRead) # 0 =>
           LET glob == Diag("warning", "glob pattern cannot be enforced", r.Pattern)
               literal == Diag("warning", "read deny cannot be enforced", r.Pattern)
           IN IF r.IsGlob
              THEN glob \in Range(stderr) /\ literal \notin Range(stderr)
              ELSE literal \in Range(stderr) /\ glob \notin Range(stderr)
    /\ Len(SelectSeq(stderr, isWarning))
         = Cardinality({ i \in 1..Len(linuxConfig.DenyRules) :
                           ModeAnd(linuxConfig.DenyRules[i].Modes, AccessRead) # 0 })
    /\ linuxPc = "failed" =>
         linuxErr \in { "failed to apply Landlock restrictions",
                        "command not found", "syscall.Exec failed" }

\* the target was executed outside strict mode after both warnings were
\* written
C17_Witness ==
  /\ linuxPc = "exec"
  /\ ~linuxConfig.AllowAll
  /\ ~linuxConfig.Strict
  /\ \E r \in Range(linuxConfig.DenyRules) :
       r.IsGlob /\ Diag("warning", "glob pattern cannot be enforced", r.Pattern)
                     \in Range(stderr)
  /\ \E r \in Range(linuxConfig.DenyRules) :
       ~r.IsGlob /\ Diag("warning", "read deny cannot be enforced", r.Pattern)
                      \in Range(stderr)

\* C18: a glob write deny is warned about and skipped in every mode: for
\* every glob deny rule with the WRITE bit a diagnostic naming its pattern
\* is on standard error and the pattern is not in the write deny set.
C18_GlobWriteDenyWarnedAndSkipped ==
  lowered =>
    \A r \in Range(linuxConfig.DenyRules) :
      (r.IsGlob /\ ModeAnd(r.Modes, AccessWrite) # 0) =>
        /\ \E d \in Range(stderr) : d.path = r.Pattern
        /\ filepathAbs(r.Pattern) \notin writeDenySet(linuxConfig)

C20_PathContains ==
  contained # "" =>
    LET p == cleanPath(parent)
        c == cleanPath(child)
    IN /\ contained = "true"
            <=> (/\ Len(c) > Len(p)
                 /\ SubSeq(c, 1, Len(p)) = p
                 /\ c[Len(p) + 1] = "/")
       /\ contained = "true" =>
            /\ Len(c) > Len(p)
            /\ SubSeq(c, 1, Len(p) + 1) = p \o <<"/">>
       /\ p = c => contained = "false"
       /\ p = <<"/">> => contained = "false"
       /\ (p = <<"/", "h", "/", "u">>
             /\ c \in { <<"/", "h", "/", "u", "X">>,
                        <<"/", "h", "/", "u", ".", "c">> })
            => contained = "false"

\* a call with arguments that cleaning changes found the child contained
C20_Witness ==
  /\ contained = "true"
  /\ cleanPath(child) # child
  /\ cleanPath(parent) # parent

(***************************************************************************)
(* Properties of the except lists of deny rules.                           *)
(***************************************************************************)
\* the rules held by the resolver's map
storedRules == UNION { Range(rules[k]) : k \in DOMAIN rules }

\* every entry of the except list is absolute, lexically clean and strictly
\* inside the rule's own path
exceptInsideRule(rule) ==
  \A i \in 1..Len(rule.Except) :
    LET e == rule.Except[i] IN
    /\ Len(e) > 0 /\ e[1] = "/"
    /\ filepathClean(e) = e
    /\ pathContains(rule.Path, e)

\* C21: for every deny rule stored by AddDenyRule and every deny rule
\* emitted by Resolve, each entry of its except list is an absolute,
\* lexically clean path strictly contained (per pathContains) in the rule's
\* own path.
C21_ExceptInsideRule ==
  \A rule \in storedRules \cup Range(writeRules) \cup Range(readRules) :
    rule.Action = ActionDeny => exceptInsideRule(rule)

\* what AddDenyRule does establish: the entries are absolute and clean
C21_ExceptCleaned ==
  \A rule \in storedRules \cup Range(writeRules) \cup Range(readRules) :
    \A i \in 1..Len(rule.Except) :
      /\ rule.Except[i][1] = "/"
      /\ filepathClean(rule.Except[i]) = rule.Except[i]

(***************************************************************************)
(* Properties of ValidatePreset.                                           *)
(***************************************************************************)
\* the pairs i < j of the rules of a key that both come from the preset
presetPairs(key, presetName) ==
  { pair \in (1..Len(rules[key])) \X (1..Len(rules[key])) :
      /\ pair[1] < pair[2]
      /\ rules[key][pair[1]].Source.PresetName = presetName
      /\ rules[key][pair[2]].Source.PresetName = presetName }

\* the pairs of the preset on a key that share the action
duplicatePairs(key, presetName) ==
  { pair \in presetPairs(key, presetName) :
      rules[key][pair[1]].Action = rules[key][pair[2]].Action }

\* the pairs of the preset on a key with different actions that are not a
\* carve-out pair
conflictPairs(key, presetName) ==
  { pair \in presetPairs(key, presetName) :
      /\ rules[key][pair[1]].Action # rules[key][pair[2]].Action
      /\ ~isCarveOut(rules[key][pair[1]], rules[key][pair[2]]) }

\* the number of errors of a type reported for a key
errorsOn(key, type) ==
  Cardinality({ i \in 1..Len(errors) :
                  /\ errors[i].Type = type
                  /\ errors[i].Path = key.path
                  /\ errors[i].Mode = key.mode })

\* C22: ValidatePreset(name) considers only rules whose source preset is
\* name: it reports ErrorDuplicate for two such rules sharing (path, mode,
\* action), ErrorConflict for two such rules sharing (path, mode) with
\* different actions that are not a carve-out pair, and no error for a pair
\* where one rule comes from another preset or for a preset whose rules all
\* have distinct keys.
C22_ValidatePreset ==
  validated # <<>> =>
    LET name == validated[1] IN
    /\ \A i \in 1..Len(errors) :
         /\ errors[i].Preset = name
         /\ errors[i].Type \in {ErrorDuplicate, ErrorConflict}
         /\ Key(errors[i].Path, errors[i].Mode) \in DOMAIN rules
    /\ \A key \in DOMAIN rules :
         /\ errorsOn(key, ErrorDuplicate) = Cardinality(duplicatePairs(key, name))
         /\ errorsOn(key, ErrorConflict) = Cardinality(conflictPairs(key, name))
    /\ (\A key \in DOMAIN rules : presetPairs(key, name) = {}) => errors = <<>>

\* a preset with two rules of different actions on one key was validated
\* and the conflict reported
C22_Witness ==
  /\ validated = <<"p1">>
  /\ Len(errors) = 1
  /\ errors[1].Type = ErrorConflict
  /\ \E key \in DOMAIN rules : conflictPairs(key, "p1") # {}

(***************************************************************************)
(* Properties of an allow and a deny of one path.                          *)
(***************************************************************************)
\* the resolver holds exactly an allow stored by AddAllowRule and a deny
\* stored by AddDenyRule, on the same path, from different sources
allowAndDenyOf(allow, deny) ==
  /\ storedRules = {allow, deny}
  /\ NumRules = 2
  /\ allow.Action = ActionAllow /\ allow.Mode = AccessWrite
  /\ deny.Action = ActionDeny /\ deny.Mode = AccessReadWrite
  /\ allow.Path = deny.Path
  /\ allow.Source # deny.Source

\* the rules Resolve emitted for a path, in either list
emittedOn(path) ==
  { r \in Range(writeRules) \cup Range(readRules) : r.Path = path }

\* C23: when one source adds an allow for path /x with AddAllowRule and
\* another source adds a deny for the same path with AddDenyRule, Resolve
\* emits a single ALLOW winner for /x and exactly one conflict record, with
\* IsSamePreset false.
C23_AllowWinsWithConflict ==
  \A allow, deny \in storedRules :
    (calls >= 1 /\ allowAndDenyOf(allow, deny)) =>
      /\ emittedOn(allow.Path) = {allow}
      /\ Len(conflicts) = 1
      /\ conflicts[1].Path = allow.Path
      /\ conflicts[1].Resolution = allow
      /\ ~conflicts[1].IsSamePreset

\* what Resolve does return for such a pair: both rules, no conflict record
C23_BothEmittedNoConflict ==
  \A allow, deny \in storedRules :
    (calls >= 1 /\ allowAndDenyOf(allow, deny)) =>
      /\ emittedOn(allow.Path) = {allow, deny}
      /\ conflicts = <<>>

(***************************************************************************)
(* Properties of the partition of the output by mode.                      *)
(***************************************************************************)
\* the entries of a list that carry the given key
entriesOf(rs, key) ==
  { i \in 1..Len(rs) : rs[i].Path = key.path /\ rs[i].Mode = key.mode }

globalReadDeny ==
  IF \E i \in 1..Len(profile) : profile[i] = Line("deny", "file-read-data", "", <<>>)
  THEN CHOOSE i \in 1..Len(profile) :
         /\ profile[i] = Line("deny", "file-read-data", "", <<>>)
         /\ \A j \in 1..(i - 1) : profile[j] # profile[i]
  ELSE Len(profile) + 1

\* a deny line derived from a rule: it names a path or a regex
isRuleDeny(line) == line.verb = "deny" /\ line.filter # ""

\* an allow file-write* line of a write-allow rule of the configuration
isWriteAllow(line) ==
  /\ line.verb = "allow" /\ line.op = "file-write*"
  /\ line.filter \in {"subpath", "literal"}
  /\ \E rule \in Range(config.WriteRules) :
       rule.Action = ActionAllow /\ line.arg = escapePathForSandbox(rule.Path)

\* an allow file-read-data line naming a path
isReadAllow(line) ==
  line.verb = "allow" /\ line.op = "file-read-data" /\ line.filter # ""

\* the paths of the rules of a list with the given action, in list order
pathsWith(rs, action) ==
  Flatten([i \in 1..Len(rs) |->
    IF rs[i].Action = action THEN <<rs[i].Path>> ELSE <<>>])

\* the except entries of the deny rules of a list, in list order
exceptsOf(rs) ==
  Flatten([i \in 1..Len(rs) |->
    IF rs[i].Action = ActionDeny THEN rs[i].Except ELSE <<>>])

\* the lines are, for each path in order, its subpath allow and then its
\* literal allow of file-read-data
readAllowsOf(lines, paths) ==
  /\ Len(lines) = 2 * Len(paths)
  /\ \A k \in 1..Len(paths) :
       /\ lines[2 * k - 1]
            = Line("allow", "file-read-data", "subpath", escapePathForSandbox(paths[k]))
       /\ lines[2 * k]
            = Line("allow", "file-read-data", "literal", escapePathForSandbox(paths[k]))

\* C25: emission order of the macOS profile: every rule-derived
\* (deny file-write* ...) and non-strict (deny file-read-data ...) line
\* precedes every (allow file-write* ...) line of a write-allow rule, which
\* precede the exception read allows; in strict mode the global
\* (deny file-read-data) is immediately followed by
\* (allow file-read-data (literal "/")), and both precede, in this order, the
\* read denies, the read allows, the read mirrors of write allows, and the
\* read-deny exception allows.
C25_EmissionOrder ==
  (profile # <<>> /\ ~config.AllowAll) =>
    LET g == globalReadDeny
        n == Len(profile)
        denies == Len(pathsWith(config.ReadRules, ActionDeny))
    IN /\ \A i, j \in 1..(g - 1) :
            isRuleDeny(profile[i]) /\ isWriteAllow(profile[j]) => i < j
       /\ \A i, j \in 1..(g - 1) :
            isWriteAllow(profile[i]) /\ isReadAllow(profile[j]) => i < j
       /\ \A i \in 1..(g - 1) :
            isReadAllow(profile[i]) =>
              \E e \in Range(exceptsOf(config.WriteRules)) :
                profile[i].arg = escapePathForSandbox(e)
       /\ config.Strict <=> g <= n
       /\ config.Strict =>
            /\ g + 1 + denies <= n
            /\ profile[g + 1] = Line("allow", "file-read-data", "literal", <<"/">>)
            /\ \A i \in (g + 2)..(g + 1 + denies) :
                 isRuleDeny(profile[i]) /\ profile[i].op = "file-read-data"
            /\ readAllowsOf(SubSeq(profile, g + 2 + denies, n),
                            pathsWith(config.ReadRules, ActionAllow)
                            \o pathsWith(config.WriteRules, ActionAllow)
                            \o exceptsOf(config.ReadRules))

\* a strict profile with a read deny carrying an exception and a read allow
C25_Witness ==
  /\ profile # <<>>
  /\ ~config.AllowAll
  /\ config.Strict
  /\ exceptsOf(config.ReadRules) # <<>>
  /\ pathsWith(config.ReadRules, ActionAllow) # <<>>
  /\ \E i, j \in 1..Len(profile) :
       i < globalReadDeny /\ isRuleDeny(profile[i])
       /\ j > globalReadDeny /\ isRuleDeny(profile[j])

(***************************************************************************)
(* Properties of the regex of a glob rule.                                 *)
(***************************************************************************)
\* the left-to-right translation of a glob pattern
RECURSIVE translation(_)
translation(s) ==
  IF s = <<>> THEN <<>>
  ELSE IF Len(s) >= 2 /\ s[1] = "*" /\ s[2] = "*"
  THEN <<".", "*">> \o translation(SubSeq(s, 3, Len(s)))
  ELSE IF s[1] = "*" THEN <<"[", "^", "/", "]", "*">> \o translation(Tail(s))
  ELSE IF s[1] = "?" THEN <<"[", "^", "/", "]">> \o translation(Tail(s))
  ELSE IF s[1] \in {".", "(", ")", "[", "]", "{", "}", "+", "^", "$", "|", "\\"}
  THEN <<"\\", s[1]>> \o translation(Tail(s))
  ELSE <<s[1]>> \o translation(Tail(s))

\* '^', the translation, '($|/)'
expectedRegex(pattern) ==
  <<"^">> \o translation(pattern) \o <<"(", "$", "|", "/", ")">>

\* the deny rules with a glob path that the profile was generated from
globDenyRules ==
  { rule \in Range(config.WriteRules) \cup Range(config.ReadRules) :
      rule.Action = ActionDeny /\ rule.IsGlob }

UsersSecret ==
  <<"/", "U", "s", "e", "r", "s", "/", "*", "/", "s", "e", "c", "r", "e", "t">>

\* ^/Users/[^/]*/secret($|/)
UsersSecretRegex ==
  <<"^", "/", "U", "s", "e", "r", "s", "/", "[", "^", "/", "]", "*", "/",
    "s", "e", "c", "r", "e", "t", "(", "$", "|", "/", ")">>

\* C26: globToSBPLRegex(pattern) equals '^' followed by the left-to-right
\* translation of the pattern ('**' to '.*', a single '*' to '[^/]*', '?' to
\* '[^/]', each of . ( ) [ ] { } + ^ $ | \ prefixed with a backslash, every
\* other character copied) followed by '($|/)'; /Users/*/secret yields
\* ^/Users/[^/]*/secret($|/); the regex is used for both the write deny and
\* the read-data deny of a glob rule.
C26_GlobRegex ==
  (profile # <<>> /\ ~config.AllowAll) =>
    /\ \A rule \in globDenyRules :
         /\ ModeAnd(rule.Mode, AccessWrite) # 0 =>
              \E i \in 1..Len(profile) :
                profile[i] = Line("deny", "file-write*", "regex",
                                  expectedRegex(rule.Path))
         /\ ModeAnd(rule.Mode, AccessRead) # 0 =>
              \E i \in 1..Len(profile) :
                profile[i] = Line("deny", "file-read-data", "regex",
                                  expectedRegex(rule.Path))
         /\ rule.Path = UsersSecret => expectedRegex(rule.Path) = UsersSecretRegex
    /\ \A i \in 1..Len(profile) :
         (profile[i].verb = "deny" /\ profile[i].filter = "regex") =>
           \E rule \in globDenyRules : profile[i].arg = expectedRegex(rule.Path)

\* the profile of a deny of /Users/*/secret holds both denies of its regex
C26_Witness ==
  /\ profile # <<>>
  /\ \E rule \in globDenyRules : rule.Path = UsersSecret
  /\ \E i, j \in 1..Len(profile) :
       /\ profile[i] = Line("deny", "file-write*", "regex", UsersSecretRegex)
       /\ profile[j] = Line("deny", "file-read-data", "regex", UsersSecretRegex)

(***************************************************************************)
(* Properties of the quoting of paths in the profile.                      *)
(***************************************************************************)
\* reading the text between the quotes of an SBPL string from position i: a
\* backslash takes the next character with it; FALSE when a double quote
\* stands unescaped, or a backslash is left without a character to escape
RECURSIVE staysQuoted(_, _)
staysQuoted(s, i) ==
  IF i > Len(s) THEN TRUE
  ELSE IF s[i] = "\\" THEN i + 1 <= Len(s) /\ staysQuoted(s, i + 2)
  ELSE IF s[i] = "\"" THEN FALSE
  ELSE staysQuoted(s, i + 1)

\* the lines of the profile that quote a path or a pattern
quotingLines == { i \in 1..Len(profile) : profile[i].filter # "" }

\* C27: every rule path and exception path substituted into a quoted SBPL
\* string has each backslash and each double quote backslash-escaped, so no
\* path can terminate the string early; this holds for literal rules
\* (subpath/literal forms) and for glob rules lowered to (regex #"...").
C27_PathsStayQuoted ==
  \A i \in quotingLines : staysQuoted(profile[i].arg, 1)

\* what does hold: the subpath and literal forms stay quoted, and unescaping
\* them gives back a path of the configuration
C27_LiteralPathsStayQuoted ==
  \A i \in quotingLines :
    (profile[i].filter \in {"subpath", "literal"} /\ profile[i].arg # <<"/">>) =>
      /\ staysQuoted(profile[i].arg, 1)
      /\ \E rule \in Range(config.WriteRules) \cup Range(config.ReadRules) :
           \/ Unescape(profile[i].arg) = rule.Path
           \/ \E k \in 1..Len(rule.Except) : Unescape(profile[i].arg) = rule.Except[k]

(***************************************************************************)
(* Properties of the rights of the read+write rules.                       *)
(***************************************************************************)
\* /dev or a descendant of /dev
underDev(path) == path = DevDir \/ HasPrefix(path, DevDir \o <<"/">>)

\* the read+write rules appended by the loop over the write-allow paths:
\* those after the rule always added for /dev/null
allowedPathRules ==
  { i \in 1..Len(landlockRules) :
      /\ isReadWrite(landlockRules[i])
      /\ \E j \in 1..(i - 1) :
           landlockRules[j] = LandlockRule("RWFiles", DevNull, FALSE, FALSE) }

\* C28: on Linux, every installed read+write rule for a write-allow path
\* that is a directory includes the refer right, and every installed
\* read+write rule for /dev or a descendant of /dev includes the ioctl_dev
\* right; a directory under /dev therefore carries both rights.
C28_ReferAndIoctlDev ==
  lowered =>
    \A i \in allowedPathRules :
      LET rule == landlockRules[i] IN
      /\ rule.kind = "RWDirs" => rule.refer
      /\ underDev(rule.path) => rule.ioctlDev
      /\ (rule.kind = "RWDirs" /\ underDev(rule.path)) =>
           rule.refer /\ rule.ioctlDev

\* what does hold: a rule of a write-allow path has the refer right exactly
\* when the path is a directory outside /dev and the ioctl_dev right exactly
\* when the path is /dev or lies under it, never both; the rule always added
\* for /dev/null has neither
C28_ReferOrIoctlDev ==
  lowered =>
    /\ \A i \in allowedPathRules :
         LET rule == landlockRules[i] IN
         /\ rule.refer <=> (rule.kind = "RWDirs" /\ ~underDev(rule.path))
         /\ rule.ioctlDev <=> underDev(rule.path)
         /\ ~(rule.refer /\ rule.ioctlDev)
    /\ \A i \in 1..Len(landlockRules) :
         (isReadWrite(landlockRules[i]) /\ i \notin allowedPathRules) =>
           landlockRules[i] = LandlockRule("RWFiles", DevNull, FALSE, FALSE)

(***************************************************************************)
(* Properties of the list of presets of an invocation.                     *)
(***************************************************************************)
\* the auto-preset matches for the command
autoMatches == GetAutoPresets(userConfig.AutoPresets).presets

\* the presets named on the command line followed by the matches
namedPresets == invocation.presets \o autoMatches

\* some named preset resolves with skip-defaults true
someSkipsDefaults ==
  \E i \in 1..Len(namedPresets) :
    userConfig.Presets[namedPresets[i]] = "skip"

\* some preset of the list does not resolve
unresolved(presets) ==
  { i \in 1..Len(presets) : userConfig.Presets[presets[i]] = "missing" }

\* main is past the point where the list is complete
listComplete ==
  \/ mainPc \in {"process", "configured", "run"}
  \/ mainPc = "exit1" /\ Len(mainErr) = 2

\* C29: the effective preset list processed by the launcher is, in order,
\* the default presets, then the --preset values, then the auto-preset
\* matches for the command; the defaults are omitted iff --no-defaults is
\* given or any --preset or auto-matched preset resolves with skip-defaults
\* true, and a preset that fails to resolve during the skip-defaults check
\* is still reported as a fatal error before anything is executed.
C29_PresetList ==
  /\ listComplete =>
       /\ flags.presets
            = (IF invocation.noDefaults \/ someSkipsDefaults
               THEN <<>> ELSE userConfig.Defaults) \o namedPresets
       /\ processed <= Len(flags.presets)
       /\ \A i \in 1..processed : userConfig.Presets[flags.presets[i]] \in {"plain", "skip"}
  /\ mainPc \in {"configured", "run"} =>
       /\ processed = Len(flags.presets)
       /\ unresolved(namedPresets) = {}
       /\ mainErr = <<>>
  /\ (mainPc = "exit1" /\ Len(mainErr) = 2) =>
       /\ mainErr[2] = flags.presets[processed + 1]
       /\ mainErr[1] = "preset not resolved"
            <=> userConfig.Presets[mainErr[2]] = "missing"

\* once the list holds a preset that does not resolve, main never executes:
\* it stays on its way to, or at, the fatal exit
C29_UnresolvedIsFatal ==
  [][(listComplete /\ unresolved(flags.presets) # {}) => mainPc' \notin {"configured", "run"}]_vars

\* defaults, --preset values and matches were all processed and the command
\* handed to the backend
C29_Witness ==
  /\ mainPc = "run"
  /\ userConfig.Defaults # <<>>
  /\ invocation.presets # <<>>
  /\ autoMatches # <<>>
  /\ processed = Len(userConfig.Defaults) + Len(invocation.presets) + Len(autoMatches)

(***************************************************************************)
(* Properties of the order in which rules are added.                       *)
(***************************************************************************)
\* the orders a slice can be in
Perms(s) ==
  { [i \in 1..Len(s) |-> s[f[i]]] : f \in KeyOrders(1..Len(s)) }

\* the maps holding the same rules as rs, added in any order
Reorderings(rs) ==
  { m \in [DOMAIN rs -> UNION { Perms(rs[k]) : k \in DOMAIN rs }] :
      \A k \in DOMAIN rs : m[k] \in Perms(rs[k]) }

\* the winners named by a list of conflict records
winnersOf(cs) == { cs[i].Resolution : i \in 1..Len(cs) }

\* C30: order independence of resolution: for every multiset of rules, the
\* write-rules list, read-rules list and conflict winners returned by
\* Resolve do not depend on the order in which the rules were added,
\* including when a key holds several rules of equal precedence that differ
\* in source preset or except list, and when the write list holds a WRITE
\* rule and a READ|WRITE rule on the same path.
C30_OrderIndependent ==
  calls >= 1 =>
    \A m \in Reorderings(rules) : \A order \in KeyOrders(DOMAIN rules) :
      LET res == resolveIn(order, m) IN
      /\ res.writeRules = writeRules
      /\ res.readRules = readRules
      /\ winnersOf(res.conflicts) = winnersOf(conflicts)

\* what does hold: the sets of keys emitted into each list do not depend on
\* the order
C30_KeysOrderIndependent ==
  calls >= 1 =>
    \A m \in Reorderings(rules) : \A order \in KeyOrders(DOMAIN rules) :
      LET res == resolveIn(order, m)
          keysOf(rs) == { Key(rs[i].Path, rs[i].Mode) : i \in 1..Len(rs) }
      IN /\ keysOf(res.writeRules) = keysOf(writeRules)
         /\ keysOf(res.readRules) = keysOf(readRules)
         /\ Len(res.conflicts) = Len(conflicts)

====
